---- MODULE Spec2Model ----
(***************************************************************************)
(* PartyQuiz: the quiz-table parser (generate_google_slides.parse_quiz),   *)
(* the verdict normalisation of llm_interface.LLMInterface, the slide      *)
(* title/body mapping and the presentation batching of                     *)
(* generate_google_slides, its checking pass and report                    *)
(* (check_quiz_with_llm, save_llm_check_results), the order of the remote  *)
(* operations of its main, and the row bookkeeping of grammar_check.       *)
(*                                                                         *)
(* Text is a sequence of one-character strings, so that strip() and the    *)
(* regular expressions of the source are computed character by character.  *)
(***************************************************************************)
EXTENDS Integers, Sequences, FiniteSets, TLC

VARIABLES
    \* parse_quiz
    data,            \* the row table handed to parse_quiz
    i,               \* parse_quiz's loop index (0-based, as in the source)
    topics,          \* the list of topics built so far
    current_topic,   \* 0 for None, else the position in topics of the open topic
    ppc,             \* position in parse_quiz: "start", "loop", "done"
    \* LLMInterface
    response,        \* what LLMInterface.ask returned
    grammar_result,  \* outcome of check_czech_grammar
    answer_result,   \* outcome of check_answer_correctness
    lpc,             \* "idle", or the check that has run: "grammar", "answer"
    \* the title and body of one slide
    m_topic,         \* a topic name
    m_question,      \* a question text
    m_slide,         \* the title and body computed for them
    mpc,             \* "idle", "done"
    \* add_content_to_slides
    topics_data,     \* the topics of the presentation
    slides,          \* the slides of the presentation: page elements of each
    requests,        \* the insertText requests built so far
    slide_idx,       \* index of the next slide to fill (0-based)
    ti,              \* position of the outer loop in topics_data (1-based)
    qi,              \* position of the inner loop in the topic's questions
    sent,            \* the requests handed to batchUpdate
    spc,             \* "get", "loop", "done"
    \* main, from the loop that creates the presentations
    main_topics,     \* the topics parse_quiz returned
    main_i,          \* the loop index i (0-based)
    presentation_ids, \* the ids of the presentations created
    calls,           \* the calls of create_presentation: title and topics
    mainpc,          \* "loop", "done", "crashed"
    \* check_quiz_with_llm and save_llm_check_results
    check_topics,    \* the topic tree, each question with its llm_checks
    cti,             \* position of the outer loop in check_topics (1-based)
    cqi,             \* position of the inner loop in the topic's questions
    cpc,             \* "grammar", "answer", "save", "summary", "done", "raised"
    total_questions, \* the counter of line 198
    grammar_issues,  \* the counter of line 199
    answer_issues,   \* the counter of line 200
    report_lines,    \* the answer status written for each question
    text_summary,    \* the three counts of the text report
    json_summary,    \* the three counts of the JSON document
    \* main, from authentication to the summary
    run_topics,      \* the topics parse_quiz returned to main
    rti,             \* position of the check loop in run_topics (1-based)
    rqi,             \* position of the check loop in the topic's questions
    run_i,           \* the index i of the loop over the batches (0-based)
    folder_id,       \* whether the folder lookup found a folder
    last_op,         \* the remote operation issued last
    attempted,       \* the calls of create_presentation made
    rpc,             \* the position in main
    \* grammar_check: check_grammar_and_collect_corrections and the write
    gc_data,         \* the rows read from the sheet
    gc_i,            \* the index of the row in gc_data (0-based)
    corrections,     \* the entries collected so far
    written,         \* the cells handed to the sheet's batchUpdate
    gcpc             \* "loop", "collected", "done", "raised"

parse_vars == <<data, i, topics, current_topic, ppc>>
llm_vars == <<response, grammar_result, answer_result, lpc>>
map_vars == <<m_topic, m_question, m_slide, mpc>>
slides_vars ==
    <<topics_data, slides, requests, slide_idx, ti, qi, sent, spc>>

main_vars == <<main_topics, main_i, presentation_ids, calls, mainpc>>

report_vars ==
    <<check_topics, cti, cqi, cpc, total_questions, grammar_issues, answer_issues, report_lines, text_summary, json_summary>>

run_vars ==
    <<run_topics, rti, rqi, run_i, folder_id, last_op, attempted, rpc>>

gc_vars ==
    <<gc_data, gc_i, corrections, written, gcpc>>

vars ==
    <<parse_vars, llm_vars, map_vars, slides_vars, main_vars,
      report_vars, run_vars, gc_vars>>

----------------------------------------------------------------------------
(* Bounds of the model *)

\* longest row table, header included
MaxRows == 10
\* most rows of a table that are empty or have a blank first cell
MaxBlankRows == 3
\* longest topic name or question text handed to the slide mapping
MaxTextLen == 4
\* most questions of a topic of a presentation
MaxQuestions == 2
\* most slides of a presentation
MaxSlides == 4
\* most topics main groups into presentations
MaxTopics == 5
\* most questions of a topic tree that is checked and reported
MaxCheckQuestions == 3
\* most topics of a run of main
MaxRunTopics == 3
\* most questions of a topic of a run of main
MaxRunQuestions == 2
\* most rows below the header of a sheet that is grammar-checked
MaxSheetRows == 3

----------------------------------------------------------------------------
(* Text helpers *)

Whitespace == {" ", "\t", "\n"}

RECURSIVE lstrip(_)
lstrip(s) == IF s # <<>> /\ Head(s) \in Whitespace THEN lstrip(Tail(s)) ELSE s

RECURSIVE rstrip(_)
rstrip(s) ==
    IF s # <<>> /\ s[Len(s)] \in Whitespace
    THEN rstrip(SubSeq(s, 1, Len(s) - 1))
    ELSE s

\* str.strip()
strip(s) == rstrip(lstrip(s))

----------------------------------------------------------------------------
(* parse_quiz *)

\* the questions an open topic holds before the next candidate row opens a
\* new topic
QuestionsPerTopic == 6

\* data[k] of the source (0-based)
Row(k) == data[k + 1]

\* "not row or not row[0].strip()"
IsBlankRow(row) == IF row = <<>> THEN TRUE ELSE strip(row[1]) = <<>>

\* the lookahead of lines 89-94 with no next row required (faulty variant)
is_topic_no_lookahead(k) == TRUE

\* lines 89-94: a next row exists and is a non-empty list
is_topic(k) == IF k + 1 < Len(data) THEN Len(Row(k + 1)) > 0 ELSE FALSE

\* the gate with a strict comparison (faulty variant)
starts_new_topic_strict(k) ==
    /\ is_topic(k)
    /\ IF current_topic = 0
       THEN TRUE
       ELSE Len(topics[current_topic].questions) > QuestionsPerTopic

\* line 96
starts_new_topic(k) ==
    /\ is_topic(k)
    /\ IF current_topic = 0
       THEN TRUE
       ELSE Len(topics[current_topic].questions) >= QuestionsPerTopic

\* lines 108-112
make_question(row) ==
    [question |-> IF Len(row) > 0 THEN strip(row[1]) ELSE <<>>,
     answer   |-> IF Len(row) > 1 THEN strip(row[2]) ELSE <<>>,
     notes    |-> IF Len(row) > 2 THEN strip(row[3]) ELSE <<>>]

\* a lone header row taken as a topic (faulty variant)
parse_return_empty_header_topic ==
    /\ ppc = "start"
    /\ Len(data) < 2
    /\ ppc' = "done"
    /\ topics' = IF Len(data) = 1
                 THEN << [topic_name |-> strip(data[1][1]),
                          questions |-> <<>>] >>
                 ELSE <<>>
    /\ UNCHANGED <<data, i, current_topic>>
    /\ UNCHANGED <<llm_vars, map_vars, slides_vars, main_vars,
                 report_vars, run_vars, gc_vars>>

\* lines 72-73: fewer than two rows
parse_return_empty ==
    /\ ppc = "start"
    /\ Len(data) < 2
    /\ ppc' = "done"
    /\ UNCHANGED <<data, i, topics, current_topic>>
    /\ UNCHANGED <<llm_vars, map_vars, slides_vars, main_vars,
                 report_vars, run_vars, gc_vars>>

\* lines 75-77
parse_begin ==
    /\ ppc = "start"
    /\ Len(data) >= 2
    /\ ppc' = "loop"
    /\ UNCHANGED <<data, i, topics, current_topic>>
    /\ UNCHANGED <<llm_vars, map_vars, slides_vars, main_vars,
                 report_vars, run_vars, gc_vars>>

\* a blank row that closes the open topic (faulty variant)
parse_skip_blank_resets ==
    /\ ppc = "loop"
    /\ i < Len(data)
    /\ IsBlankRow(Row(i))
    /\ i' = i + 1
    /\ current_topic' = 0
    /\ UNCHANGED <<data, topics, ppc>>
    /\ UNCHANGED <<llm_vars, map_vars, slides_vars, main_vars,
                 report_vars, run_vars, gc_vars>>

\* lines 83-85
parse_skip_blank ==
    /\ ppc = "loop"
    /\ i < Len(data)
    /\ IsBlankRow(Row(i))
    /\ i' = i + 1
    /\ UNCHANGED <<data, topics, current_topic, ppc>>
    /\ UNCHANGED <<llm_vars, map_vars, slides_vars, main_vars,
                 report_vars, run_vars, gc_vars>>

\* lines 96-104
parse_start_topic ==
    /\ ppc = "loop"
    /\ i < Len(data)
    /\ ~IsBlankRow(Row(i))
    /\ starts_new_topic(i)
    /\ topics' = Append(topics,
                        [topic_name |-> strip(Row(i)[1]), questions |-> <<>>])
    /\ current_topic' = Len(topics) + 1
    /\ i' = i + 1
    /\ UNCHANGED <<data, ppc>>
    /\ UNCHANGED <<llm_vars, map_vars, slides_vars, main_vars,
                 report_vars, run_vars, gc_vars>>

\* lines 106-116
parse_question_row ==
    /\ ppc = "loop"
    /\ i < Len(data)
    /\ ~IsBlankRow(Row(i))
    /\ ~starts_new_topic(i)
    /\ LET question == make_question(Row(i))
       IN  topics' =
             IF current_topic # 0 /\ question.question # <<>>
             THEN [topics EXCEPT ![current_topic].questions =
                                     Append(@, question)]
             ELSE topics
    /\ i' = i + 1
    /\ UNCHANGED <<data, current_topic, ppc>>
    /\ UNCHANGED <<llm_vars, map_vars, slides_vars, main_vars,
                 report_vars, run_vars, gc_vars>>

\* lines 79 and 118: the loop ends
parse_return ==
    /\ ppc = "loop"
    /\ i >= Len(data)
    /\ ppc' = "done"
    /\ UNCHANGED <<data, i, topics, current_topic>>
    /\ UNCHANGED <<llm_vars, map_vars, slides_vars, main_vars,
                 report_vars, run_vars, gc_vars>>

\* lines 89-94 for a table d: row k has a next row, a non-empty list
next_row_is_list(d, k) == IF k + 1 < Len(d) THEN Len(d[k + 2]) > 0 ELSE FALSE

\* lines 79-116 as a function: the topics after the rows from index k on,
\* given the topics ts built so far, of which cur is the open one (0: none)
RECURSIVE parse_rows(_, _, _, _)
parse_rows(d, k, ts, cur) ==
    IF k >= Len(d) THEN ts
    ELSE LET row == d[k + 1] IN
         IF IsBlankRow(row) THEN parse_rows(d, k + 1, ts, cur)
         ELSE IF next_row_is_list(d, k)
                 /\ (IF cur = 0 THEN TRUE
                     ELSE Len(ts[cur].questions) >= QuestionsPerTopic)
         THEN parse_rows(d, k + 1,
                         Append(ts, [topic_name |-> strip(row[1]),
                                     questions |-> <<>>]),
                         Len(ts) + 1)
         ELSE IF cur # 0 /\ make_question(row).question # <<>>
         THEN parse_rows(d, k + 1,
                         [ts EXCEPT ![cur].questions =
                                        Append(@, make_question(row))],
                         cur)
         ELSE parse_rows(d, k + 1, ts, cur)

\* lines 65-118: the topics parse_quiz returns for the table d
parse_quiz(d) == IF Len(d) < 2 THEN <<>> ELSE parse_rows(d, 1, <<>>, 0)

\* the letter that identifies the row at a position of the table
RowLetter ==
    <<"a", "b", "c", "d", "e", "f", "g", "h", "i", "j", "k", "l", "m", "n">>

\* a row the sheet can deliver: [] for an empty row, a whitespace first cell,
\* or a question/topic text (padded), with or without answer and notes cells
MakeRow(kind, k) ==
    CASE kind = "empty" -> <<>>
      [] kind = "blank" -> << <<" ">>, <<"x">> >>
      [] OTHER ->
           IF k % 2 = 0
           THEN << <<" ", RowLetter[k], " ">> >>
           ELSE << <<RowLetter[k]>>, <<" ", "x">>, <<"n", " ">> >>

RowKinds == {"empty", "blank", "text"}

\* the row tables of at most MaxRows rows: none, or a header row followed by
\* rows of which at most MaxBlankRows are empty or blank
Tables ==
    {<<>>} \cup
    UNION { { [k \in 1..n |-> IF k = 1 THEN MakeRow("text", 1)
                                        ELSE MakeRow(f[k], k)] :
                f \in { g \in [2..n -> RowKinds] :
                          Cardinality({k \in 2..n : g[k] # "text"})
                             <= MaxBlankRows } } :
            n \in 1..MaxRows }

ParseNext ==
    \/ parse_return_empty
    \/ parse_begin
    \/ parse_skip_blank
    \/ parse_start_topic
    \/ parse_question_row
    \/ parse_return


----------------------------------------------------------------------------
(* Python and JSON values of llm_interface *)

\* a field of a dict: absent, or a value with its type
Absent  == [t |-> "absent", n |-> 0, s |-> ""]
Null    == [t |-> "null", n |-> 0, s |-> ""]
PyInt(n) == [t |-> "int", n |-> n, s |-> ""]
PyStr(s) == [t |-> "str", n |-> 0, s |-> s]
PyBool(b) == [t |-> "bool", n |-> IF b THEN 1 ELSE 0, s |-> ""]
\* a list of n correction pairs
PyList(n) == [t |-> "list", n |-> n, s |-> ""]

NoFields ==
    [is_correct |-> Absent, confidence |-> Absent, explanation |-> Absent,
     has_errors |-> Absent, corrections |-> Absent, error |-> Absent]

\* a dict with the given fields
Dict(f) == [j |-> "object", f |-> f]
\* a JSON value that is no object
NonObject == [j |-> "array", f |-> NoFields]

\* what a call does: return a value or raise
Return(v) == [out |-> "return", exc |-> "", value |-> v]
Raise(e)  == [out |-> "raise", exc |-> e, value |-> NonObject]
NotCalled == [out |-> "none", exc |-> "", value |-> NonObject]

\* completion text: a sequence of tokens, which are a fence labelled json, a
\* bare fence, whitespace, prose, or the text of one JSON value
FenceJson == [tok |-> "fence_json", val |-> NonObject]
Fence     == [tok |-> "fence", val |-> NonObject]
Space     == [tok |-> "ws", val |-> NonObject]
Prose     == [tok |-> "prose", val |-> NonObject]
JsonText(v) == [tok |-> "json", val |-> v]

\* content.split(sep)[1].split(fence)[0]: what follows the first separator,
\* up to the next fence of either kind
RECURSIVE until_fence(_)
until_fence(c) ==
    IF c = <<>> \/ Head(c).tok \in {"fence_json", "fence"}
    THEN <<>>
    ELSE <<Head(c)>> \o until_fence(Tail(c))

RECURSIVE after_first(_, _)
after_first(c, seps) ==
    IF c = <<>> THEN <<>>
    ELSE IF Head(c).tok \in seps THEN Tail(c)
    ELSE after_first(Tail(c), seps)

RECURSIVE lstrip_tokens(_)
lstrip_tokens(c) ==
    IF c # <<>> /\ Head(c).tok = "ws" THEN lstrip_tokens(Tail(c)) ELSE c

RECURSIVE rstrip_tokens(_)
rstrip_tokens(c) ==
    IF c # <<>> /\ c[Len(c)].tok = "ws"
    THEN rstrip_tokens(SubSeq(c, 1, Len(c) - 1))
    ELSE c

strip_tokens(c) == rstrip_tokens(lstrip_tokens(c))

HasToken(c, toks) == \E k \in 1..Len(c) : c[k].tok \in toks

\* lines 89-92 and 150-153: the text inside the first fenced block, else the
\* text itself
extract_json(c) ==
    IF HasToken(c, {"fence_json"})
    THEN strip_tokens(until_fence(after_first(c, {"fence_json"})))
    ELSE IF HasToken(c, {"fence"})
    THEN strip_tokens(until_fence(after_first(c, {"fence"})))
    ELSE c

\* json.loads: the text, surrounding whitespace aside, is one JSON value
json_parses(c) ==
    LET t == strip_tokens(c) IN Len(t) = 1 /\ t[1].tok = "json"

json_loads(c) == strip_tokens(c)[1].val

\* the response of ask: an error message (a str), a message dict with or
\* without content, or something else
ErrorString   == [kind |-> "str", has_content |-> FALSE, ctype |-> "", text |-> <<>>]
NotADict      == [kind |-> "other", has_content |-> FALSE, ctype |-> "", text |-> <<>>]
NoContent     == [kind |-> "dict", has_content |-> FALSE, ctype |-> "", text |-> <<>>]
NullContent   == [kind |-> "dict", has_content |-> TRUE, ctype |-> "null", text |-> <<>>]
ListContent   == [kind |-> "dict", has_content |-> TRUE, ctype |-> "list", text |-> <<>>]
TextContent(c) == [kind |-> "dict", has_content |-> TRUE, ctype |-> "str", text |-> c]

----------------------------------------------------------------------------
(* LLMInterface.check_czech_grammar and check_answer_correctness *)

GrammarFallback(msg) ==
    Return(Dict([NoFields EXCEPT !.has_errors = PyBool(FALSE),
                                 !.corrections = PyList(0),
                                 !.confidence = PyInt(0),
                                 !.error = PyStr(msg)]))

AnswerFallback(msg) ==
    Return(Dict([NoFields EXCEPT !.is_correct = PyBool(FALSE),
                                 !.confidence = PyInt(0),
                                 !.explanation = PyStr(msg)]))

\* lines 85-99
check_czech_grammar(r) ==
    IF r.kind = "dict" /\ r.has_content
    THEN IF r.ctype # "str"
         THEN Raise("TypeError")
         ELSE IF json_parses(extract_json(r.text))
         THEN Return(json_loads(extract_json(r.text)))
         ELSE GrammarFallback("Could not parse LLM response")
    ELSE GrammarFallback("Invalid response format")

\* the confidence floor of line 159
ConfidenceFloor == 80

\* a lower floor (faulty variant)
below_floor_50(n) == n < 50

\* line 159: "< 80"
below_floor(n) == n < ConfidenceFloor

\* the marker appended with no space before it (faulty variant)
with_low_confidence_marker_no_space(e) == e \o "(Nízká jistota LLM)"

\* line 162
with_low_confidence_marker(e) == e \o " (Nízká jistota LLM)"

\* lines 158-164, for a parsed dict
apply_confidence_floor(f) ==
    IF f.confidence.t \notin {"absent", "int"}
    THEN AnswerFallback("Unexpected error")
    ELSE IF below_floor(IF f.confidence.t = "absent" THEN 0 ELSE f.confidence.n)
    THEN IF f.explanation.t = "absent"
         THEN Return(Dict([f EXCEPT !.is_correct = PyBool(FALSE)]))
         ELSE IF f.explanation.t = "str"
         THEN Return(Dict([f EXCEPT
                  !.is_correct = PyBool(FALSE),
                  !.explanation = PyStr(with_low_confidence_marker(@.s))]))
         ELSE AnswerFallback("Unexpected error")
    ELSE Return(Dict(f))

\* lines 135-168
check_answer_correctness(r) ==
    IF r.kind = "str" THEN AnswerFallback("error message")
    ELSE IF r.kind # "dict" THEN AnswerFallback("Unexpected response type")
    ELSE IF ~r.has_content \/ r.ctype = "null"
            \/ (r.ctype = "str" /\ r.text = <<>>)
    THEN AnswerFallback("Empty response content")
    ELSE IF r.ctype # "str" THEN AnswerFallback("Unexpected error")
    ELSE IF ~json_parses(extract_json(r.text))
    THEN AnswerFallback("JSON parse error")
    ELSE IF json_loads(extract_json(r.text)).j # "object"
    THEN AnswerFallback("Unexpected error")
    ELSE apply_confidence_floor(json_loads(extract_json(r.text)).f)

llm_check_czech_grammar ==
    /\ lpc = "idle"
    /\ grammar_result' = check_czech_grammar(response)
    /\ lpc' = "grammar"
    /\ UNCHANGED <<response, answer_result>>
    /\ UNCHANGED <<parse_vars, map_vars, slides_vars, main_vars,
                 report_vars, run_vars, gc_vars>>

llm_check_answer_correctness ==
    /\ lpc = "idle"
    /\ answer_result' = check_answer_correctness(response)
    /\ lpc' = "answer"
    /\ UNCHANGED <<response, grammar_result>>
    /\ UNCHANGED <<parse_vars, map_vars, slides_vars, main_vars,
                 report_vars, run_vars, gc_vars>>

\* the JSON values a completion can carry
ConfidenceValues ==
    {Absent, Null, PyStr("90")} \cup {PyInt(n) : n \in {-5, 0, 50, 79, 80, 81, 100, 150}}

Payloads ==
    {NonObject} \cup
    { Dict([NoFields EXCEPT !.is_correct = ic, !.confidence = cf,
                            !.explanation = ex, !.has_errors = he,
                            !.corrections = co]) :
        ic \in {Absent, PyBool(TRUE), PyBool(FALSE)},
        cf \in ConfidenceValues,
        ex \in {Absent, Null, PyStr("ok")},
        he \in {Absent, PyBool(TRUE)},
        co \in {Absent, PyList(1)} }

\* the texts a completion can be: the JSON alone, in a fenced block (labelled
\* or not, closed or not, with prose around it), or no JSON at all
Framings(v) ==
    { <<JsonText(v)>>,
      <<Space, JsonText(v), Space>>,
      <<FenceJson, Space, JsonText(v), Space, Fence>>,
      <<Prose, FenceJson, JsonText(v), Fence, Prose>>,
      <<Fence, Space, JsonText(v), Fence>>,
      <<FenceJson, JsonText(v)>>,
      <<Prose, JsonText(v)>>,
      <<FenceJson, Prose, JsonText(v), Fence>> }

Responses ==
    {ErrorString, NotADict, NoContent, NullContent, ListContent,
     TextContent(<<>>), TextContent(<<Prose>>), TextContent(<<Space>>),
     TextContent(<<Fence, Fence>>)}
    \cup UNION { {TextContent(c) : c \in Framings(v)} : v \in Payloads }

LlmNext ==
    \/ llm_check_czech_grammar
    \/ llm_check_answer_correctness

----------------------------------------------------------------------------
(* The slide title and body: lines 399-420 of add_content_to_slides *)

Digits == {"0", "1", "2", "3", "4", "5", "6", "7", "8", "9"}
Punctuation == {".", ")"}

\* length of the longest prefix of s made of characters of class
RECURSIVE run_length(_, _)
run_length(s, class) ==
    IF s # <<>> /\ Head(s) \in class
    THEN 1 + run_length(Tail(s), class)
    ELSE 0

\* the text from position k on
drop(s, k) == SubSeq(s, k + 1, Len(s))

\* length of group 1 of class+[.)] matched at the start of s, or 0 for no match
number_length(s, class) ==
    LET n == run_length(s, class) IN
    IF n >= 1 /\ Len(s) > n /\ s[n + 1] \in Punctuation THEN n + 1 ELSE 0

\* length of the whole match, the whitespace after the number included
match_length(s, class) ==
    LET n == number_length(s, class) IN
    IF n = 0 THEN 0 ELSE n + run_length(drop(s, n), Whitespace)

\* the topic number kept in the name (faulty variant)
topic_name_clean_keeps_number(name) == strip(name)

\* line 403: re.sub(r'^\d+[\.\)]\s*', '', topic_name).strip()
topic_name_clean(name) == strip(drop(name, match_length(name, Digits)))

\* line 411: re.match(r'^([T\d]+[\.\)])\s*', question_text) matched
number_match(text) == number_length(text, Digits \cup {"T"}) > 0

\* line 414: group 1
question_number(text) == SubSeq(text, 1, number_length(text, Digits \cup {"T"}))

\* lines 415 and 419
question_without_number(text) ==
    IF number_match(text)
    THEN strip(drop(text, match_length(text, Digits \cup {"T"})))
    ELSE text

\* lines 416 and 420
slide_title(name, text) ==
    IF number_match(text)
    THEN question_number(text) \o <<" ">> \o topic_name_clean(name)
    ELSE topic_name_clean(name)

NoSlide == [title |-> <<>>, body |-> <<>>]

map_slide ==
    /\ mpc = "idle"
    /\ m_slide' = [title |-> slide_title(m_topic, m_question),
                   body  |-> question_without_number(m_question)]
    /\ mpc' = "done"
    /\ UNCHANGED <<m_topic, m_question>>
    /\ UNCHANGED <<parse_vars, llm_vars, slides_vars, main_vars,
                 report_vars, run_vars, gc_vars>>

Alphabet == {"T", "3", ".", ")", " ", "a"}

\* the texts of at most MaxTextLen characters of Alphabet
Texts == UNION { [1..n -> Alphabet] : n \in 0..MaxTextLen }

TopicHistory == <<"2", ".", " ", "H", "i", "s", "t", "o", "r", "y">>
QuestionWhatYear ==
    <<"3", ")", " ", "W", "h", "a", "t", " ", "y", "e", "a", "r", "?">>

SampleTopics ==
    {TopicHistory, Tail(Tail(Tail(TopicHistory))), <<"1", "2", ")", "a", " ">>}
SampleQuestions ==
    {QuestionWhatYear, Tail(Tail(Tail(QuestionWhatYear))),
     <<"T", "1", ".", "\t", "a", "\n">>}

MapNext == map_slide

----------------------------------------------------------------------------
(* add_content_to_slides: lines 390-454 *)

\* what a question leaves in requests: lines 423-442
requests_for(t, q, idx) ==
    LET name == topics_data[t].topic_name
        text == topics_data[t].questions[q].question
    IN  IF slides[idx + 1] >= 2
        THEN << [objectId |-> <<idx + 1, 1>>,
                 text |-> slide_title(name, text),
                 insertionIndex |-> 0,
                 question |-> <<t, q>>],
                [objectId |-> <<idx + 1, 2>>,
                 text |-> question_without_number(text),
                 insertionIndex |-> 0,
                 question |-> <<t, q>>] >>
        ELSE <<>>

\* lines 392-394: the presentation is fetched
slides_get ==
    /\ spc = "get"
    /\ slides' \in UNION { [1..n -> {1, 2, 3}] : n \in 0..MaxSlides }
    /\ spc' = "loop"
    /\ UNCHANGED <<topics_data, requests, slide_idx, ti, qi, sent>>
    /\ UNCHANGED <<parse_vars, llm_vars, map_vars, main_vars,
                 report_vars, run_vars, gc_vars>>

\* lines 392-394 and 453-454: the fetch fails with an HttpError
slides_get_fails ==
    /\ spc = "get"
    /\ spc' = "done"
    /\ UNCHANGED <<topics_data, slides, requests, slide_idx, ti, qi, sent>>
    /\ UNCHANGED <<parse_vars, llm_vars, map_vars, main_vars,
                 report_vars, run_vars, gc_vars>>

\* the slide index restarted with each topic (faulty variant)
slides_question_restarts ==
    /\ spc = "loop"
    /\ ti <= Len(topics_data)
    /\ qi <= Len(topics_data[ti].questions)
    /\ (IF qi = 1 THEN 0 ELSE slide_idx) < Len(slides)
    /\ requests' = requests \o
                   requests_for(ti, qi, IF qi = 1 THEN 0 ELSE slide_idx)
    /\ slide_idx' = (IF qi = 1 THEN 0 ELSE slide_idx) + 1
    /\ qi' = qi + 1
    /\ UNCHANGED <<topics_data, slides, ti, sent, spc>>
    /\ UNCHANGED <<parse_vars, llm_vars, map_vars, main_vars,
                 report_vars, run_vars, gc_vars>>

\* lines 405-444: one question, with a slide left for it
slides_question ==
    /\ spc = "loop"
    /\ ti <= Len(topics_data)
    /\ qi <= Len(topics_data[ti].questions)
    /\ slide_idx < Len(slides)
    /\ requests' = requests \o requests_for(ti, qi, slide_idx)
    /\ slide_idx' = slide_idx + 1
    /\ qi' = qi + 1
    /\ UNCHANGED <<topics_data, slides, ti, sent, spc>>
    /\ UNCHANGED <<parse_vars, llm_vars, map_vars, main_vars,
                 report_vars, run_vars, gc_vars>>

\* the break started again at the first slide (faulty variant)
slides_break_wraps ==
    /\ spc = "loop"
    /\ ti <= Len(topics_data)
    /\ qi <= Len(topics_data[ti].questions)
    /\ slide_idx >= Len(slides)
    /\ ti' = ti + 1
    /\ qi' = 1
    /\ slide_idx' = 0
    /\ UNCHANGED <<topics_data, slides, requests, sent, spc>>
    /\ UNCHANGED <<parse_vars, llm_vars, map_vars, main_vars,
                 report_vars, run_vars, gc_vars>>

\* lines 406-407: no slide left, the loop over the topic's questions breaks
slides_break ==
    /\ spc = "loop"
    /\ ti <= Len(topics_data)
    /\ qi <= Len(topics_data[ti].questions)
    /\ slide_idx >= Len(slides)
    /\ ti' = ti + 1
    /\ qi' = 1
    /\ UNCHANGED <<topics_data, slides, requests, slide_idx, sent, spc>>
    /\ UNCHANGED <<parse_vars, llm_vars, map_vars, main_vars,
                 report_vars, run_vars, gc_vars>>

\* line 405: the topic's questions are exhausted
slides_next_topic ==
    /\ spc = "loop"
    /\ ti <= Len(topics_data)
    /\ qi > Len(topics_data[ti].questions)
    /\ ti' = ti + 1
    /\ qi' = 1
    /\ UNCHANGED <<topics_data, slides, requests, slide_idx, sent, spc>>
    /\ UNCHANGED <<parse_vars, llm_vars, map_vars, main_vars,
                 report_vars, run_vars, gc_vars>>

\* lines 447-451: the requests are executed in one batchUpdate
slides_batch_update ==
    /\ spc = "loop"
    /\ ti > Len(topics_data)
    /\ requests # <<>>
    /\ sent' = requests
    /\ spc' = "done"
    /\ UNCHANGED <<topics_data, slides, requests, slide_idx, ti, qi>>
    /\ UNCHANGED <<parse_vars, llm_vars, map_vars, main_vars,
                 report_vars, run_vars, gc_vars>>

\* lines 447-454: the batchUpdate fails with an HttpError, or line 447 finds
\* no request to execute
slides_nothing_inserted ==
    /\ spc = "loop"
    /\ ti > Len(topics_data)
    /\ spc' = "done"
    /\ UNCHANGED <<topics_data, slides, requests, slide_idx, ti, qi, sent>>
    /\ UNCHANGED <<parse_vars, llm_vars, map_vars, main_vars,
                 report_vars, run_vars, gc_vars>>

\* the text of question q of topic t: numbered, except every second one
SampleQuestionText(t, q) ==
    IF q % 2 = 1
    THEN <<RowLetter[q], RowLetter[t]>>
    ELSE <<"T", ")", " ", RowLetter[q], RowLetter[t]>>

SampleTopic(t, n) ==
    [topic_name |-> <<"2", ".", " ", "t", RowLetter[t]>>,
     questions |-> [q \in 1..n |->
                      [question |-> SampleQuestionText(t, q),
                       answer |-> <<>>, notes |-> <<>>]]]

\* the batches main hands over: one or two topics
Batches ==
    { <<SampleTopic(1, n)>> : n \in 0..MaxQuestions } \cup
    { <<SampleTopic(1, n), SampleTopic(2, m)>> :
        n \in 0..MaxQuestions, m \in 0..MaxQuestions }

SlidesNext ==
    \/ slides_get
    \/ slides_get_fails
    \/ slides_question
    \/ slides_break
    \/ slides_next_topic
    \/ slides_batch_update
    \/ slides_nothing_inserted

----------------------------------------------------------------------------
(* main: lines 505-527 *)

\* the number of topics of one presentation: range(0, len(topics), 2) and
\* topics[i:i+2]
TopicsPerPresentation == 2

Min(a, b) == IF a < b THEN a ELSE b

\* a slice of one topic only (faulty variant)
batch_topics_single(k) == SubSeq(main_topics, k + 1, Min(k + 1, Len(main_topics)))

\* line 509: topics[i:i+2]
batch_topics(k) ==
    SubSeq(main_topics, k + 1, Min(k + TopicsPerPresentation, Len(main_topics)))

RECURSIVE join_names(_)
\* ' & '.join(topic_names)
join_names(batch) ==
    IF batch = <<>> THEN <<>>
    ELSE IF Len(batch) = 1 THEN batch[1].topic_name
    ELSE batch[1].topic_name \o <<" ", "&", " ">> \o join_names(Tail(batch))

\* lines 512-513
presentation_title(batch) == <<"Party Quiz - ">> \o join_names(batch)

create_presentation_call(k) ==
    [title |-> presentation_title(batch_topics(k)),
     topics_data |-> batch_topics(k)]

\* lines 507-519: create_presentation returns the id of the presentation
main_create_presentation ==
    /\ mainpc = "loop"
    /\ main_i < Len(main_topics)
    /\ calls' = Append(calls, create_presentation_call(main_i))
    /\ presentation_ids' = Append(presentation_ids, Len(calls) + 1)
    /\ main_i' = main_i + TopicsPerPresentation
    /\ UNCHANGED <<main_topics, mainpc>>
    /\ UNCHANGED <<parse_vars, llm_vars, map_vars, slides_vars,
                 report_vars, run_vars, gc_vars>>

\* lines 378-380 and 518: an HttpError inside create_presentation, which then
\* returns None
main_create_presentation_none ==
    /\ mainpc = "loop"
    /\ main_i < Len(main_topics)
    /\ calls' = Append(calls, create_presentation_call(main_i))
    /\ main_i' = main_i + TopicsPerPresentation
    /\ UNCHANGED <<main_topics, presentation_ids, mainpc>>
    /\ UNCHANGED <<parse_vars, llm_vars, map_vars, slides_vars,
                 report_vars, run_vars, gc_vars>>

\* line 516: create_presentation raises something that is no HttpError, which
\* nothing in main catches
main_create_presentation_raises ==
    /\ mainpc = "loop"
    /\ main_i < Len(main_topics)
    /\ calls' = Append(calls, create_presentation_call(main_i))
    /\ mainpc' = "crashed"
    /\ UNCHANGED <<main_topics, main_i, presentation_ids>>
    /\ UNCHANGED <<parse_vars, llm_vars, map_vars, slides_vars,
                 report_vars, run_vars, gc_vars>>

\* lines 521-526: the loop is over, the summary is printed
main_summary ==
    /\ mainpc = "loop"
    /\ main_i >= Len(main_topics)
    /\ mainpc' = "done"
    /\ UNCHANGED <<main_topics, main_i, presentation_ids, calls>>
    /\ UNCHANGED <<parse_vars, llm_vars, map_vars, slides_vars,
                 report_vars, run_vars, gc_vars>>

\* the topic lists of at most MaxTopics topics parse_quiz can return
TopicLists ==
    UNION { { [t \in 1..n |-> SampleTopic(t, f[t])] :
                f \in [1..n -> 0..MaxQuestions] } : n \in 0..MaxTopics }

MainNext ==
    \/ main_create_presentation
    \/ main_create_presentation_none
    \/ main_create_presentation_raises
    \/ main_summary

----------------------------------------------------------------------------
(* check_quiz_with_llm: lines 121-180, and save_llm_check_results: lines   *)
(* 183-297                                                                 *)

\* Python's truth value of a dict field ("if grammar.get('has_errors')")
truthy(v) ==
    CASE v.t \in {"absent", "null"} -> FALSE
      [] v.t = "str" -> v.s # ""
      [] OTHER -> v.n # 0

\* ".get('confidence', 0)"
confidence_or_0(f) ==
    IF f.confidence.t = "absent" THEN PyInt(0) ELSE f.confidence

\* the question the loops are at
check_question == check_topics[cti].questions[cqi]

\* the loops have a question to handle
at_question ==
    IF cti <= Len(check_topics)
    THEN cqi <= Len(check_topics[cti].questions)
    ELSE FALSE

\* the inner loop is over, the outer one is not
at_topic_end ==
    IF cti <= Len(check_topics)
    THEN cqi > Len(check_topics[cti].questions)
    ELSE FALSE

\* every question taken as answered (faulty variant)
has_answer_always(q) == TRUE

\* line 155: "question.get('answer') and question['answer'].strip()"
has_answer(q) == IF q.answer = <<>> THEN FALSE ELSE strip(q.answer) # <<>>

\* lines 139-152: the grammar check of one question; the .get of line 143
\* needs a dict
check_grammar ==
    /\ cpc = "grammar"
    /\ at_question
    /\ \E r \in {ErrorString, NullContent,
                 TextContent(<<FenceJson, JsonText(Dict(
                    [NoFields EXCEPT !.has_errors = PyBool(TRUE),
                                     !.corrections = PyList(1),
                                     !.confidence = PyInt(90)])), Fence>>)} :
          LET g == check_czech_grammar(r) IN
          IF g.out = "raise" \/ g.value.j # "object"
          THEN /\ cpc' = "raised"
               /\ UNCHANGED <<check_topics, cti, cqi>>
          ELSE /\ check_topics' =
                     [check_topics EXCEPT ![cti].questions[cqi] =
                         [@ EXCEPT !.grammar = g, !.answer_check = NotCalled]]
               /\ IF has_answer(check_question)
                  THEN cpc' = "answer" /\ cqi' = cqi
                  ELSE cpc' = "grammar" /\ cqi' = cqi + 1
               /\ cti' = cti
    /\ UNCHANGED <<total_questions, grammar_issues, answer_issues,
                   report_lines, text_summary, json_summary>>
    /\ UNCHANGED <<parse_vars, llm_vars, map_vars, slides_vars, main_vars, run_vars, gc_vars>>

\* lines 155-172: the answer check of a question with an answer; the
\* comparison of line 166 needs a number
check_answer ==
    /\ cpc = "answer"
    /\ at_question
    /\ \E r \in {ErrorString} \cup
                { TextContent(<<JsonText(Dict(f))>>) :
                    f \in { [NoFields EXCEPT !.is_correct = PyBool(FALSE),
                                             !.confidence = PyInt(90),
                                             !.explanation = PyStr("ok")],
                            [NoFields EXCEPT !.is_correct = PyBool(TRUE),
                                             !.confidence = PyInt(50),
                                             !.explanation = PyStr("ok")],
                            [NoFields EXCEPT !.is_correct = PyBool(TRUE),
                                             !.confidence = PyInt(95)],
                            [NoFields EXCEPT !.is_correct = PyBool(TRUE)] } } :
          LET a == check_answer_correctness(r) IN
          IF a.out = "raise" \/ a.value.j # "object"
          THEN /\ cpc' = "raised"
               /\ UNCHANGED <<check_topics, cqi>>
          ELSE IF confidence_or_0(a.value.f).t # "int"
          THEN /\ cpc' = "raised"
               /\ UNCHANGED <<check_topics, cqi>>
          ELSE /\ check_topics' =
                     [check_topics EXCEPT ![cti].questions[cqi].answer_check
                                              = a]
               /\ cqi' = cqi + 1
               /\ cpc' = "grammar"
    /\ UNCHANGED <<cti, total_questions, grammar_issues, answer_issues,
                   report_lines, text_summary, json_summary>>
    /\ UNCHANGED <<parse_vars, llm_vars, map_vars, slides_vars, main_vars, run_vars, gc_vars>>

\* lines 133-136: the next topic
check_next_topic ==
    /\ cpc = "grammar"
    /\ at_topic_end
    /\ cti' = cti + 1
    /\ cqi' = 1
    /\ UNCHANGED <<check_topics, cpc, total_questions, grammar_issues,
                   answer_issues, report_lines, text_summary, json_summary>>
    /\ UNCHANGED <<parse_vars, llm_vars, map_vars, slides_vars, main_vars, run_vars, gc_vars>>

\* line 180, then lines 192-200 of save_llm_check_results, which main calls
\* next (line 495)
check_return ==
    /\ cpc = "grammar"
    /\ cti > Len(check_topics)
    /\ cpc' = "save"
    /\ cti' = 1
    /\ cqi' = 1
    /\ total_questions' = 0
    /\ grammar_issues' = 0
    /\ answer_issues' = 0
    /\ UNCHANGED <<check_topics, report_lines, text_summary, json_summary>>
    /\ UNCHANGED <<parse_vars, llm_vars, map_vars, slides_vars, main_vars, run_vars, gc_vars>>

\* lines 207-248: one question of the report; the comparison of line 239
\* needs a number
save_question ==
    /\ cpc = "save"
    /\ at_question
    /\ LET q == check_question
           grammar == q.grammar.value.f
           answer == q.answer_check.value.f
           confidence == confidence_or_0(answer)
       IN  IF q.answer_check # NotCalled /\ confidence.t # "int"
           THEN /\ cpc' = "raised"
                /\ UNCHANGED <<cqi, total_questions, grammar_issues,
                               answer_issues, report_lines>>
           ELSE /\ cpc' = "save"
                /\ cqi' = cqi + 1
                /\ total_questions' = total_questions + 1
                /\ grammar_issues' =
                      IF q.grammar # NotCalled /\ truthy(grammar.has_errors)
                      THEN grammar_issues + 1
                      ELSE grammar_issues
                /\ answer_issues' =
                      IF q.answer_check # NotCalled
                         /\ ~(confidence.n >= ConfidenceFloor)
                      THEN answer_issues + 1
                      ELSE answer_issues
                /\ report_lines' = Append(report_lines,
                      [question |-> <<cti, cqi>>,
                       grammar_status |->
                          IF q.grammar = NotCalled THEN ""
                          ELSE IF truthy(grammar.has_errors)
                          THEN "CHYBY NALEZENY" ELSE "OK",
                       answer_status |->
                          IF q.answer_check = NotCalled THEN ""
                          ELSE IF confidence.n >= ConfidenceFloor
                          THEN "SPRÁVNÁ" ELSE "NÍZKÁ JISTOTA"])
    /\ UNCHANGED <<check_topics, cti, text_summary, json_summary>>
    /\ UNCHANGED <<parse_vars, llm_vars, map_vars, slides_vars, main_vars, run_vars, gc_vars>>

\* lines 202-205: the next topic of the report
save_next_topic ==
    /\ cpc = "save"
    /\ at_topic_end
    /\ cti' = cti + 1
    /\ cqi' = 1
    /\ UNCHANGED <<check_topics, cpc, total_questions, grammar_issues,
                   answer_issues, report_lines, text_summary, json_summary>>
    /\ UNCHANGED <<parse_vars, llm_vars, map_vars, slides_vars, main_vars, run_vars, gc_vars>>

\* lines 252-258: the summary block of the text report
save_summary ==
    /\ cpc = "save"
    /\ cti > Len(check_topics)
    /\ text_summary' = <<total_questions, grammar_issues, answer_issues>>
    /\ cpc' = "summary"
    /\ UNCHANGED <<check_topics, cti, cqi, total_questions, grammar_issues,
                   answer_issues, report_lines, json_summary>>
    /\ UNCHANGED <<parse_vars, llm_vars, map_vars, slides_vars, main_vars, run_vars, gc_vars>>

\* lines 263-295: the JSON document
save_json ==
    /\ cpc = "summary"
    /\ json_summary' = <<total_questions, grammar_issues, answer_issues>>
    /\ cpc' = "done"
    /\ UNCHANGED <<check_topics, cti, cqi, total_questions, grammar_issues,
                   answer_issues, report_lines, text_summary>>
    /\ UNCHANGED <<parse_vars, llm_vars, map_vars, slides_vars, main_vars, run_vars, gc_vars>>

\* lines 192 and 294: a report file cannot be opened for writing
save_fails ==
    /\ \/ cpc = "save" /\ cti = 1 /\ cqi = 1 /\ report_lines = <<>>
       \/ cpc = "summary"
    /\ cpc' = "raised"
    /\ UNCHANGED <<check_topics, cti, cqi, total_questions, grammar_issues,
                   answer_issues, report_lines, text_summary, json_summary>>
    /\ UNCHANGED <<parse_vars, llm_vars, map_vars, slides_vars, main_vars, run_vars, gc_vars>>

\* a parsed question with its answer cell, not yet checked
CheckQuestion(t, q, answered) ==
    [question |-> SampleQuestionText(t, q),
     answer |-> IF answered THEN <<"x">> ELSE <<>>,
     notes |-> <<>>,
     grammar |-> NotCalled,
     answer_check |-> NotCalled]

\* the topic trees parse_quiz can hand over: none, or two topics with at
\* most MaxCheckQuestions questions in all
CheckTrees ==
    {<<>>} \cup
    UNION { { << [topic_name |-> <<"t", RowLetter[1]>>,
                  questions |-> [q \in 1..n[1] |->
                                   CheckQuestion(1, q, a[q])]],
                 [topic_name |-> <<"t", RowLetter[2]>>,
                  questions |-> [q \in 1..n[2] |->
                                   CheckQuestion(2, q, a[n[1] + q])]] >> :
                a \in [1..(n[1] + n[2]) -> BOOLEAN] } :
            n \in { p \in (0..MaxCheckQuestions) \X (0..MaxCheckQuestions) :
                      p[1] + p[2] <= MaxCheckQuestions } }

ReportNext ==
    \/ check_grammar
    \/ check_answer
    \/ check_next_topic
    \/ check_return
    \/ save_question
    \/ save_next_topic
    \/ save_summary
    \/ save_json
    \/ save_fails

----------------------------------------------------------------------------
(* main: lines 457-527, with create_presentation (lines 307-380) and       *)
(* add_content_to_slides (lines 390-454) as the remote operations they     *)
(* issue                                                                   *)

\* a remote operation: its kind, the question (t, q) or the batch it is for
Op(kind, t, q, batch) == [op |-> kind, t |-> t, q |-> q, batch |-> batch]
NoOp == Op("none", 0, 0, 0)

\* what an operation can end with: a result, an HttpError, another exception
Outcomes == {"ok", "HttpError", "error"}

\* the question the check loop of main's run is at
run_question == run_topics[rti].questions[rqi]

run_at_question ==
    IF rti <= Len(run_topics)
    THEN rqi <= Len(run_topics[rti].questions)
    ELSE FALSE

\* the number of the batch that starts at index k (1-based)
batch_number(k) == k \div TopicsPerPresentation + 1

\* the questions of the topics k..last of run_topics
RECURSIVE questions_from(_, _)
questions_from(k, last) ==
    IF k > last THEN 0
    ELSE Len(run_topics[k].questions) + questions_from(k + 1, last)

\* lines 507 and 350-360: the questions of the batch that starts at run_i
batch_questions ==
    questions_from(run_i + 1,
                   Min(run_i + TopicsPerPresentation, Len(run_topics)))

\* lines 461-462: get_credentials is not guarded
run_authenticate ==
    /\ rpc = "authenticate"
    /\ last_op' = Op("authenticate", 0, 0, 0)
    /\ \E outcome \in {"ok", "error"} :
          rpc' = IF outcome = "ok" THEN "read" ELSE "crashed"
    /\ UNCHANGED <<run_topics, rti, rqi, run_i, folder_id, attempted>>
    /\ UNCHANGED <<parse_vars, llm_vars, map_vars, slides_vars, main_vars,
                   report_vars, gc_vars>>

\* lines 467-472 and 46-62: no row, or an HttpError, gives [] and main
\* returns; another exception is not caught
run_read_spreadsheet ==
    /\ rpc = "read"
    /\ last_op' = Op("read", 0, 0, 0)
    /\ \E outcome \in Outcomes, rows \in BOOLEAN :
          rpc' = IF outcome = "error" THEN "crashed"
                 ELSE IF outcome = "HttpError" \/ ~rows THEN "stopped"
                 ELSE "folder"
    /\ UNCHANGED <<run_topics, rti, rqi, run_i, folder_id, attempted>>
    /\ UNCHANGED <<parse_vars, llm_vars, map_vars, slides_vars, main_vars,
                   report_vars, gc_vars>>

\* lines 474-487: every exception of the lookup is caught; then parse_quiz
\* (line 490)
run_folder_lookup ==
    /\ rpc = "folder"
    /\ last_op' = Op("folder lookup", 0, 0, 0)
    /\ \E outcome \in Outcomes, parents \in BOOLEAN :
          folder_id' = (outcome = "ok" /\ parents)
    /\ rpc' = "llm"
    /\ UNCHANGED <<run_topics, rti, rqi, run_i, attempted>>
    /\ UNCHANGED <<parse_vars, llm_vars, map_vars, slides_vars, main_vars,
                   report_vars, gc_vars>>

\* lines 493-494: LLMInterface() raises without an API key, which line 496
\* catches
run_llm_interface ==
    /\ rpc = "llm"
    /\ \E outcome \in {"ok", "error"} :
          rpc' = IF outcome = "ok" THEN "check" ELSE "batch"
    /\ UNCHANGED <<run_topics, rti, rqi, run_i, folder_id, last_op,
                   attempted>>
    /\ UNCHANGED <<parse_vars, llm_vars, map_vars, slides_vars, main_vars,
                   report_vars, gc_vars>>

\* lines 139-152: the grammar check; an exception ends the checks (line 496)
run_grammar_check ==
    /\ rpc = "check"
    /\ run_at_question
    /\ last_op' = Op("grammar check", rti, rqi, 0)
    /\ \E outcome \in {"ok", "error"} :
          IF outcome = "error"
          THEN rpc' = "batch" /\ rqi' = rqi
          ELSE IF has_answer(run_question)
          THEN rpc' = "answer" /\ rqi' = rqi
          ELSE rpc' = "check" /\ rqi' = rqi + 1
    /\ UNCHANGED <<run_topics, rti, run_i, folder_id, attempted>>
    /\ UNCHANGED <<parse_vars, llm_vars, map_vars, slides_vars, main_vars,
                   report_vars, gc_vars>>

\* lines 155-172: the answer check, which catches its own exceptions
run_answer_check ==
    /\ rpc = "answer"
    /\ last_op' = Op("answer check", rti, rqi, 0)
    /\ rqi' = rqi + 1
    /\ rpc' = "check"
    /\ UNCHANGED <<run_topics, rti, run_i, folder_id, attempted>>
    /\ UNCHANGED <<parse_vars, llm_vars, map_vars, slides_vars, main_vars,
                   report_vars, gc_vars>>

\* lines 133-136
run_next_topic ==
    /\ rpc = "check"
    /\ rti <= Len(run_topics)
    /\ ~run_at_question
    /\ rti' = rti + 1
    /\ rqi' = 1
    /\ UNCHANGED <<run_topics, run_i, folder_id, last_op, attempted, rpc>>
    /\ UNCHANGED <<parse_vars, llm_vars, map_vars, slides_vars, main_vars,
                   report_vars, gc_vars>>

\* the report written before the checks are over (faulty variant)
run_report_write_early ==
    /\ rpc = "check"
    /\ last_op' = Op("report write", 0, 0, 0)
    /\ rpc' = "batch"
    /\ UNCHANGED <<run_topics, rti, rqi, run_i, folder_id, attempted>>
    /\ UNCHANGED <<parse_vars, llm_vars, map_vars, slides_vars, main_vars,
                   report_vars, gc_vars>>

\* line 495: save_llm_check_results after check_quiz_with_llm returned; its
\* exceptions are caught at line 496
run_report_write ==
    /\ rpc = "check"
    /\ rti > Len(run_topics)
    /\ last_op' = Op("report write", 0, 0, 0)
    /\ rpc' = "batch"
    /\ UNCHANGED <<run_topics, rti, rqi, run_i, folder_id, attempted>>
    /\ UNCHANGED <<parse_vars, llm_vars, map_vars, slides_vars, main_vars,
                   report_vars, gc_vars>>

\* lines 505-516 and 307-313: the call of create_presentation and the
\* creation of the presentation; only an HttpError is caught (line 378)
run_create_presentation ==
    /\ rpc = "batch"
    /\ run_i < Len(run_topics)
    /\ last_op' = Op("create presentation", 0, 0, batch_number(run_i))
    /\ attempted' = attempted + 1
    /\ \E outcome \in Outcomes :
          CASE outcome = "ok" ->
                 /\ rpc' = IF folder_id THEN "move" ELSE "slides"
                 /\ run_i' = run_i
            [] outcome = "HttpError" ->
                 /\ rpc' = "batch"
                 /\ run_i' = run_i + TopicsPerPresentation
            [] OTHER ->
                 /\ rpc' = "crashed"
                 /\ run_i' = run_i
    /\ UNCHANGED <<run_topics, rti, rqi, folder_id>>
    /\ UNCHANGED <<parse_vars, llm_vars, map_vars, slides_vars, main_vars,
                   report_vars, gc_vars>>

\* lines 316-320: the parents of the new presentation; every exception is
\* caught at line 333
run_move_lookup ==
    /\ rpc = "move"
    /\ last_op' = Op("move lookup", 0, 0, batch_number(run_i))
    /\ \E outcome \in Outcomes :
          rpc' = IF outcome = "ok" THEN "move update" ELSE "slides"
    /\ UNCHANGED <<run_topics, rti, rqi, run_i, folder_id, attempted>>
    /\ UNCHANGED <<parse_vars, llm_vars, map_vars, slides_vars, main_vars,
                   report_vars, gc_vars>>

\* lines 326-333: the move into the folder; every exception is caught
run_move_update ==
    /\ rpc = "move update"
    /\ last_op' = Op("move update", 0, 0, batch_number(run_i))
    /\ rpc' = "slides"
    /\ UNCHANGED <<run_topics, rti, rqi, run_i, folder_id, attempted>>
    /\ UNCHANGED <<parse_vars, llm_vars, map_vars, slides_vars, main_vars,
                   report_vars, gc_vars>>

\* lines 341-371: one createSlide per question, and the default slide
\* deleted if the presentation reports one, in one batchUpdate
run_create_slides ==
    /\ rpc = "slides"
    /\ \E default_slide \in BOOLEAN, outcome \in Outcomes :
          IF ~default_slide /\ batch_questions = 0
          THEN /\ rpc' = "get"
               /\ UNCHANGED <<last_op, run_i>>
          ELSE /\ last_op' = Op("create slides", 0, 0, batch_number(run_i))
               /\ CASE outcome = "ok" ->
                         rpc' = "get" /\ run_i' = run_i
                    [] outcome = "HttpError" ->
                         /\ rpc' = "batch"
                         /\ run_i' = run_i + TopicsPerPresentation
                    [] OTHER ->
                         rpc' = "crashed" /\ run_i' = run_i
    /\ UNCHANGED <<run_topics, rti, rqi, folder_id, attempted>>
    /\ UNCHANGED <<parse_vars, llm_vars, map_vars, slides_vars, main_vars,
                   report_vars, gc_vars>>

\* lines 392-394: add_content_to_slides fetches the presentation; it catches
\* an HttpError (line 453) and create_presentation returns the id
run_get_slides ==
    /\ rpc = "get"
    /\ last_op' = Op("get slides", 0, 0, batch_number(run_i))
    /\ \E outcome \in Outcomes :
          CASE outcome = "ok" ->
                 rpc' = "insert" /\ run_i' = run_i
            [] outcome = "HttpError" ->
                 /\ rpc' = "batch"
                 /\ run_i' = run_i + TopicsPerPresentation
            [] OTHER ->
                 rpc' = "crashed" /\ run_i' = run_i
    /\ UNCHANGED <<run_topics, rti, rqi, folder_id, attempted>>
    /\ UNCHANGED <<parse_vars, llm_vars, map_vars, slides_vars, main_vars,
                   report_vars, gc_vars>>

\* lines 447-454 and 376: the text requests, if there are any, in one
\* batchUpdate; then create_presentation returns the id
run_insert_text ==
    /\ rpc = "insert"
    /\ \E any_request \in BOOLEAN, outcome \in Outcomes :
          IF batch_questions = 0 \/ ~any_request
          THEN /\ rpc' = "batch"
               /\ run_i' = run_i + TopicsPerPresentation
               /\ UNCHANGED last_op
          ELSE /\ last_op' = Op("insert text", 0, 0, batch_number(run_i))
               /\ IF outcome = "error"
                  THEN rpc' = "crashed" /\ run_i' = run_i
                  ELSE /\ rpc' = "batch"
                       /\ run_i' = run_i + TopicsPerPresentation
    /\ UNCHANGED <<run_topics, rti, rqi, folder_id, attempted>>
    /\ UNCHANGED <<parse_vars, llm_vars, map_vars, slides_vars, main_vars,
                   report_vars, gc_vars>>

\* lines 518-523: the summary
run_summary ==
    /\ rpc = "batch"
    /\ run_i >= Len(run_topics)
    /\ rpc' = "summary"
    /\ UNCHANGED <<run_topics, rti, rqi, run_i, folder_id, last_op,
                   attempted>>
    /\ UNCHANGED <<parse_vars, llm_vars, map_vars, slides_vars, main_vars,
                   report_vars, gc_vars>>

\* the topics parse_quiz can return: at most MaxRunTopics topics of at most
\* MaxRunQuestions questions, every second question with an answer
RunTrees ==
    UNION { { [t \in 1..n |->
                 [topic_name |-> <<"t", RowLetter[t]>>,
                  questions |-> [q \in 1..c[t] |->
                                   CheckQuestion(t, q, (t + q) % 2 = 0)]]] :
                c \in [1..n -> 0..MaxRunQuestions] } :
            n \in 0..MaxRunTopics }

RunNext ==
    \/ run_authenticate
    \/ run_read_spreadsheet
    \/ run_folder_lookup
    \/ run_llm_interface
    \/ run_grammar_check
    \/ run_answer_check
    \/ run_next_topic
    \/ run_report_write
    \/ run_create_presentation
    \/ run_move_lookup
    \/ run_move_update
    \/ run_create_slides
    \/ run_get_slides
    \/ run_insert_text
    \/ run_summary

----------------------------------------------------------------------------
(* grammar_check: check_grammar_and_collect_corrections (lines 115-194)    *)
(* and write_corrections_to_sheet (lines 71-112)                           *)

\* the sheet row of every list index (faulty variant)
sheet_row_is_index(k) == k

\* line 128: "enumerate(data[1:], start=2)": the sheet row of list index k
sheet_row(k) == k + 1

\* Python's str.replace(old, new) for a non-empty old
RECURSIVE replace(_, _, _)
replace(text, old, new) ==
    IF text = <<>> THEN <<>>
    ELSE IF Len(old) <= Len(text) /\ SubSeq(text, 1, Len(old)) = old
    THEN new \o replace(drop(text, Len(old)), old, new)
    ELSE <<Head(text)>> \o replace(Tail(text), old, new)

\* lines 145-152: the corrections applied in turn, those with an empty
\* original or corrected text left out
RECURSIVE apply_corrections(_, _)
apply_corrections(text, items) ==
    IF items = <<>> THEN text
    ELSE apply_corrections(
           IF Head(items).original # <<>> /\ Head(items).corrected # <<>>
           THEN replace(text, Head(items).original, Head(items).corrected)
           ELSE text,
           Tail(items))

\* line 166: the note written when errors come without corrections
no_correction_note(confidence) ==
    <<"[LLM detekoval chyby ale neposkytl opravu - jistota: ",
      ToString(confidence), "%]">>

\* a completion and the correction pairs its corrections list holds
Completion(r, items) == [response |-> r, items |-> items]

GrammarPayload(has_errors, n, confidence) ==
    TextContent(<<FenceJson, Space,
                  JsonText(Dict([NoFields EXCEPT
                     !.has_errors = PyBool(has_errors),
                     !.corrections = PyList(n),
                     !.confidence = PyInt(confidence)])),
                  Space, Fence>>)

\* the completions the grammar check of a row can get
Completions ==
    { Completion(ErrorString, <<>>),
      Completion(NullContent, <<>>),
      Completion(TextContent(<<JsonText(NonObject)>>), <<>>),
      Completion(GrammarPayload(FALSE, 0, 95), <<>>),
      Completion(GrammarPayload(TRUE, 0, 70), <<>>),
      Completion(GrammarPayload(TRUE, 2, 90),
                 << [original |-> <<"b">>, corrected |-> <<"B", "B">>],
                    [original |-> <<>>, corrected |-> <<"q">>] >>) }

\* lines 129-130: a blank row is passed over
gc_skip_blank ==
    /\ gcpc = "loop"
    /\ gc_i < Len(gc_data)
    /\ IsBlankRow(gc_data[gc_i + 1])
    /\ gc_i' = gc_i + 1
    /\ UNCHANGED <<gc_data, corrections, written, gcpc>>
    /\ UNCHANGED <<parse_vars, llm_vars, map_vars, slides_vars, main_vars,
                   report_vars, run_vars>>

\* lines 132-183: the grammar check of a row and its entry; the .get of
\* line 138 needs a dict
gc_check_row ==
    /\ gcpc = "loop"
    /\ gc_i < Len(gc_data)
    /\ ~IsBlankRow(gc_data[gc_i + 1])
    /\ \E c \in Completions :
          LET question_text == strip(gc_data[gc_i + 1][1])
              g == check_czech_grammar(c.response)
              f == g.value.f
              confidence == confidence_or_0(f)
          IN  IF g.out = "raise" \/ g.value.j # "object"
              THEN /\ gcpc' = "raised"
                   /\ UNCHANGED <<gc_i, corrections>>
              ELSE /\ gcpc' = "loop"
                   /\ gc_i' = gc_i + 1
                   /\ corrections' = Append(corrections,
                        [row |-> sheet_row(gc_i),
                         original |-> question_text,
                         corrected |->
                            IF ~truthy(f.has_errors) THEN question_text
                            ELSE IF truthy(f.corrections)
                            THEN apply_corrections(question_text, c.items)
                            ELSE no_correction_note(confidence.n),
                         confidence |-> confidence.n,
                         has_errors |-> truthy(f.has_errors)])
    /\ UNCHANGED <<gc_data, written>>
    /\ UNCHANGED <<parse_vars, llm_vars, map_vars, slides_vars, main_vars,
                   report_vars, run_vars>>

\* lines 128 and 194: the rows are exhausted
gc_return ==
    /\ gcpc = "loop"
    /\ gc_i >= Len(gc_data)
    /\ gcpc' = "collected"
    /\ UNCHANGED <<gc_data, gc_i, corrections, written>>
    /\ UNCHANGED <<parse_vars, llm_vars, map_vars, slides_vars, main_vars,
                   report_vars, run_vars>>

\* lines 78-112: one cell of column D per entry, in one batchUpdate; nothing
\* is written without entries or when the update fails with an HttpError
write_corrections_to_sheet ==
    /\ gcpc = "collected"
    /\ \E outcome \in {"ok", "HttpError"} :
          written' =
             IF corrections = <<>> \/ outcome = "HttpError" THEN <<>>
             ELSE [k \in 1..Len(corrections) |->
                     [column |-> "D",
                      row |-> corrections[k].row,
                      values |-> <<corrections[k].corrected>>]]
    /\ gcpc' = "done"
    /\ UNCHANGED <<gc_data, gc_i, corrections>>
    /\ UNCHANGED <<parse_vars, llm_vars, map_vars, slides_vars, main_vars,
                   report_vars, run_vars>>

\* the sheets read: none, or a header row and at most MaxSheetRows rows
SheetTables ==
    {<<>>} \cup
    UNION { { [k \in 1..n |-> IF k = 1 THEN MakeRow("text", 1)
                                        ELSE MakeRow(f[k], k)] :
                f \in [2..n -> RowKinds] } :
            n \in 1..(MaxSheetRows + 1) }

GrammarCheckNext ==
    \/ gc_skip_blank
    \/ gc_check_row
    \/ gc_return
    \/ write_corrections_to_sheet

----------------------------------------------------------------------------
(* Specifications: one per component, the others at rest *)

\* parse_quiz on every table of Tables
ParseInit ==
    /\ data \in Tables
    /\ i = 1
    /\ topics = <<>>
    /\ current_topic = 0
    /\ ppc = "start"
    /\ response = NotADict
    /\ grammar_result = NotCalled
    /\ answer_result = NotCalled
    /\ lpc = "off"
    /\ m_topic = <<>>
    /\ m_question = <<>>
    /\ m_slide = NoSlide
    /\ mpc = "off"
    /\ topics_data = <<>>
    /\ slides = <<>>
    /\ requests = <<>>
    /\ slide_idx = 0
    /\ ti = 1
    /\ qi = 1
    /\ sent = <<>>
    /\ spc = "off"
    /\ main_topics = <<>>
    /\ main_i = 0
    /\ presentation_ids = <<>>
    /\ calls = <<>>
    /\ mainpc = "off"
    /\ check_topics = <<>>
    /\ cti = 1
    /\ cqi = 1
    /\ cpc = "off"
    /\ total_questions = 0
    /\ grammar_issues = 0
    /\ answer_issues = 0
    /\ report_lines = <<>>
    /\ text_summary = <<>>
    /\ json_summary = <<>>
    /\ run_topics = <<>>
    /\ rti = 1
    /\ rqi = 1
    /\ run_i = 0
    /\ folder_id = FALSE
    /\ last_op = NoOp
    /\ attempted = 0
    /\ rpc = "off"
    /\ gc_data = <<>>
    /\ gc_i = 1
    /\ corrections = <<>>
    /\ written = <<>>
    /\ gcpc = "off"

ParseSpec == ParseInit /\ [][ParseNext]_vars

\* one check of LLMInterface on every response of Responses
LlmInit ==
    /\ response \in Responses
    /\ grammar_result = NotCalled
    /\ answer_result = NotCalled
    /\ lpc = "idle"
    /\ data = <<>>
    /\ i = 1
    /\ topics = <<>>
    /\ current_topic = 0
    /\ ppc = "off"
    /\ m_topic = <<>>
    /\ m_question = <<>>
    /\ m_slide = NoSlide
    /\ mpc = "off"
    /\ topics_data = <<>>
    /\ slides = <<>>
    /\ requests = <<>>
    /\ slide_idx = 0
    /\ ti = 1
    /\ qi = 1
    /\ sent = <<>>
    /\ spc = "off"
    /\ main_topics = <<>>
    /\ main_i = 0
    /\ presentation_ids = <<>>
    /\ calls = <<>>
    /\ mainpc = "off"
    /\ check_topics = <<>>
    /\ cti = 1
    /\ cqi = 1
    /\ cpc = "off"
    /\ total_questions = 0
    /\ grammar_issues = 0
    /\ answer_issues = 0
    /\ report_lines = <<>>
    /\ text_summary = <<>>
    /\ json_summary = <<>>
    /\ run_topics = <<>>
    /\ rti = 1
    /\ rqi = 1
    /\ run_i = 0
    /\ folder_id = FALSE
    /\ last_op = NoOp
    /\ attempted = 0
    /\ rpc = "off"
    /\ gc_data = <<>>
    /\ gc_i = 1
    /\ corrections = <<>>
    /\ written = <<>>
    /\ gcpc = "off"

LlmSpec == LlmInit /\ [][LlmNext]_vars

\* the title and body of one slide, for every name against the sample
\* questions and every question against the sample names
MapInit ==
    /\ \/ (m_topic \in Texts /\ m_question \in SampleQuestions)
       \/ (m_topic \in SampleTopics /\ m_question \in Texts \cup SampleQuestions)
    /\ m_slide = NoSlide
    /\ mpc = "idle"
    /\ data = <<>>
    /\ i = 1
    /\ topics = <<>>
    /\ current_topic = 0
    /\ ppc = "off"
    /\ response = NotADict
    /\ grammar_result = NotCalled
    /\ answer_result = NotCalled
    /\ lpc = "off"
    /\ topics_data = <<>>
    /\ slides = <<>>
    /\ requests = <<>>
    /\ slide_idx = 0
    /\ ti = 1
    /\ qi = 1
    /\ sent = <<>>
    /\ spc = "off"
    /\ main_topics = <<>>
    /\ main_i = 0
    /\ presentation_ids = <<>>
    /\ calls = <<>>
    /\ mainpc = "off"
    /\ check_topics = <<>>
    /\ cti = 1
    /\ cqi = 1
    /\ cpc = "off"
    /\ total_questions = 0
    /\ grammar_issues = 0
    /\ answer_issues = 0
    /\ report_lines = <<>>
    /\ text_summary = <<>>
    /\ json_summary = <<>>
    /\ run_topics = <<>>
    /\ rti = 1
    /\ rqi = 1
    /\ run_i = 0
    /\ folder_id = FALSE
    /\ last_op = NoOp
    /\ attempted = 0
    /\ rpc = "off"
    /\ gc_data = <<>>
    /\ gc_i = 1
    /\ corrections = <<>>
    /\ written = <<>>
    /\ gcpc = "off"

MapSpec == MapInit /\ [][MapNext]_vars

\* add_content_to_slides on every batch of Batches
SlidesInit ==
    /\ topics_data \in Batches
    /\ slides = <<>>
    /\ requests = <<>>
    /\ slide_idx = 0
    /\ ti = 1
    /\ qi = 1
    /\ sent = <<>>
    /\ spc = "get"
    /\ data = <<>>
    /\ i = 1
    /\ topics = <<>>
    /\ current_topic = 0
    /\ ppc = "off"
    /\ response = NotADict
    /\ grammar_result = NotCalled
    /\ answer_result = NotCalled
    /\ lpc = "off"
    /\ m_topic = <<>>
    /\ m_question = <<>>
    /\ m_slide = NoSlide
    /\ mpc = "off"
    /\ main_topics = <<>>
    /\ main_i = 0
    /\ presentation_ids = <<>>
    /\ calls = <<>>
    /\ mainpc = "off"
    /\ check_topics = <<>>
    /\ cti = 1
    /\ cqi = 1
    /\ cpc = "off"
    /\ total_questions = 0
    /\ grammar_issues = 0
    /\ answer_issues = 0
    /\ report_lines = <<>>
    /\ text_summary = <<>>
    /\ json_summary = <<>>
    /\ run_topics = <<>>
    /\ rti = 1
    /\ rqi = 1
    /\ run_i = 0
    /\ folder_id = FALSE
    /\ last_op = NoOp
    /\ attempted = 0
    /\ rpc = "off"
    /\ gc_data = <<>>
    /\ gc_i = 1
    /\ corrections = <<>>
    /\ written = <<>>
    /\ gcpc = "off"

SlidesSpec == SlidesInit /\ [][SlidesNext]_vars

\* the presentation loop of main on every topic list of TopicLists
MainInit ==
    /\ main_topics \in TopicLists
    /\ main_i = 0
    /\ presentation_ids = <<>>
    /\ calls = <<>>
    /\ mainpc = "loop"
    /\ data = <<>>
    /\ i = 1
    /\ topics = <<>>
    /\ current_topic = 0
    /\ ppc = "off"
    /\ response = NotADict
    /\ grammar_result = NotCalled
    /\ answer_result = NotCalled
    /\ lpc = "off"
    /\ m_topic = <<>>
    /\ m_question = <<>>
    /\ m_slide = NoSlide
    /\ mpc = "off"
    /\ topics_data = <<>>
    /\ slides = <<>>
    /\ requests = <<>>
    /\ slide_idx = 0
    /\ ti = 1
    /\ qi = 1
    /\ sent = <<>>
    /\ spc = "off"
    /\ check_topics = <<>>
    /\ cti = 1
    /\ cqi = 1
    /\ cpc = "off"
    /\ total_questions = 0
    /\ grammar_issues = 0
    /\ answer_issues = 0
    /\ report_lines = <<>>
    /\ text_summary = <<>>
    /\ json_summary = <<>>
    /\ run_topics = <<>>
    /\ rti = 1
    /\ rqi = 1
    /\ run_i = 0
    /\ folder_id = FALSE
    /\ last_op = NoOp
    /\ attempted = 0
    /\ rpc = "off"
    /\ gc_data = <<>>
    /\ gc_i = 1
    /\ corrections = <<>>
    /\ written = <<>>
    /\ gcpc = "off"

MainSpec == MainInit /\ [][MainNext]_vars

ReportInit ==
    /\ check_topics \in CheckTrees
    /\ cti = 1
    /\ cqi = 1
    /\ cpc = "grammar"
    /\ main_topics = <<>>
    /\ main_i = 0
    /\ presentation_ids = <<>>
    /\ calls = <<>>
    /\ mainpc = "off"
    /\ data = <<>>
    /\ i = 1
    /\ topics = <<>>
    /\ current_topic = 0
    /\ ppc = "off"
    /\ response = NotADict
    /\ grammar_result = NotCalled
    /\ answer_result = NotCalled
    /\ lpc = "off"
    /\ m_topic = <<>>
    /\ m_question = <<>>
    /\ m_slide = NoSlide
    /\ mpc = "off"
    /\ topics_data = <<>>
    /\ slides = <<>>
    /\ requests = <<>>
    /\ slide_idx = 0
    /\ ti = 1
    /\ qi = 1
    /\ sent = <<>>
    /\ spc = "off"
    /\ total_questions = 0
    /\ grammar_issues = 0
    /\ answer_issues = 0
    /\ report_lines = <<>>
    /\ text_summary = <<>>
    /\ json_summary = <<>>
    /\ run_topics = <<>>
    /\ rti = 1
    /\ rqi = 1
    /\ run_i = 0
    /\ folder_id = FALSE
    /\ last_op = NoOp
    /\ attempted = 0
    /\ rpc = "off"
    /\ gc_data = <<>>
    /\ gc_i = 1
    /\ corrections = <<>>
    /\ written = <<>>
    /\ gcpc = "off"

ReportSpec == ReportInit /\ [][ReportNext]_vars

RunInit ==
    /\ run_topics \in RunTrees
    /\ rpc = "authenticate"
    /\ main_topics = <<>>
    /\ main_i = 0
    /\ presentation_ids = <<>>
    /\ calls = <<>>
    /\ mainpc = "off"
    /\ data = <<>>
    /\ i = 1
    /\ topics = <<>>
    /\ current_topic = 0
    /\ ppc = "off"
    /\ response = NotADict
    /\ grammar_result = NotCalled
    /\ answer_result = NotCalled
    /\ lpc = "off"
    /\ m_topic = <<>>
    /\ m_question = <<>>
    /\ m_slide = NoSlide
    /\ mpc = "off"
    /\ topics_data = <<>>
    /\ slides = <<>>
    /\ requests = <<>>
    /\ slide_idx = 0
    /\ ti = 1
    /\ qi = 1
    /\ sent = <<>>
    /\ spc = "off"
    /\ check_topics = <<>>
    /\ cti = 1
    /\ cqi = 1
    /\ cpc = "off"
    /\ total_questions = 0
    /\ grammar_issues = 0
    /\ answer_issues = 0
    /\ report_lines = <<>>
    /\ text_summary = <<>>
    /\ json_summary = <<>>
    /\ rti = 1
    /\ rqi = 1
    /\ run_i = 0
    /\ folder_id = FALSE
    /\ last_op = NoOp
    /\ attempted = 0
    /\ gc_data = <<>>
    /\ gc_i = 1
    /\ corrections = <<>>
    /\ written = <<>>
    /\ gcpc = "off"

RunSpec == RunInit /\ [][RunNext]_vars

GrammarCheckInit ==
    /\ gc_data \in SheetTables
    /\ gcpc = "loop"
    /\ main_topics = <<>>
    /\ main_i = 0
    /\ presentation_ids = <<>>
    /\ calls = <<>>
    /\ mainpc = "off"
    /\ data = <<>>
    /\ i = 1
    /\ topics = <<>>
    /\ current_topic = 0
    /\ ppc = "off"
    /\ response = NotADict
    /\ grammar_result = NotCalled
    /\ answer_result = NotCalled
    /\ lpc = "off"
    /\ m_topic = <<>>
    /\ m_question = <<>>
    /\ m_slide = NoSlide
    /\ mpc = "off"
    /\ topics_data = <<>>
    /\ slides = <<>>
    /\ requests = <<>>
    /\ slide_idx = 0
    /\ ti = 1
    /\ qi = 1
    /\ sent = <<>>
    /\ spc = "off"
    /\ check_topics = <<>>
    /\ cti = 1
    /\ cqi = 1
    /\ cpc = "off"
    /\ total_questions = 0
    /\ grammar_issues = 0
    /\ answer_issues = 0
    /\ report_lines = <<>>
    /\ text_summary = <<>>
    /\ json_summary = <<>>
    /\ run_topics = <<>>
    /\ rti = 1
    /\ rqi = 1
    /\ run_i = 0
    /\ folder_id = FALSE
    /\ last_op = NoOp
    /\ attempted = 0
    /\ rpc = "off"
    /\ gc_i = 1
    /\ corrections = <<>>
    /\ written = <<>>

GrammarCheckSpec == GrammarCheckInit /\ [][GrammarCheckNext]_vars

----------------------------------------------------------------------------
(* Claims about parse_quiz, checked under ParseSpec *)

\* C1: no topic built by parse_quiz ever holds more than 6 questions: once
\* the open topic holds 6 questions the next non-blank row starts a new topic,
\* also when that row is the last row or is followed by an empty row.
C1_NoTopicOverSix ==
    \A t \in 1..Len(topics) : Len(topics[t].questions) <= QuestionsPerTopic

\* a header row, a topic row and 8 non-blank rows
EightQuestionTable ==
    /\ Len(data) = 10
    /\ \A k \in 2..10 : ~IsBlankRow(data[k])

\* C2 as stated: header + topic row + 8 non-blank rows gives two topics, the
\* first with 6 questions and the second with the remaining 2.
C2_SecondTopicHoldsTwo ==
    (ppc = "done" /\ EightQuestionTable) =>
        /\ Len(topics) = 2
        /\ Len(topics[1].questions) = 6
        /\ Len(topics[2].questions) = 2

\* C2 (amended): header + topic row + 8 non-blank rows gives two topics; the
\* first is named by the topic row and holds the 6 rows after it, the second
\* is named by the 7th of the 8 rows and holds 1 question, the 8th row.
C2_SeventhRowNamesSecondTopic ==
    (ppc = "done" /\ EightQuestionTable) =>
        /\ Len(topics) = 2
        /\ topics[1].topic_name = <<RowLetter[2]>>
        /\ Len(topics[1].questions) = 6
        /\ \A k \in 1..6 : topics[1].questions[k].question = <<RowLetter[k + 2]>>
        /\ topics[2].topic_name = <<RowLetter[9]>>
        /\ Len(topics[2].questions) = 1
        /\ topics[2].questions[1].question = <<RowLetter[10]>>

C2_Witness == ppc = "done" /\ EightQuestionTable

\* the loop is at the last row of the table, which is non-blank, and no topic
\* is open
LastRowWithNoOpenTopic ==
    /\ ppc = "loop"
    /\ i = Len(data) - 1
    /\ ~IsBlankRow(Row(i))
    /\ current_topic = 0

\* C3 as stated: a header and one non-blank row yield one topic with an
\* empty question list.
C3_LastRowStartsEmptyTopic ==
    (ppc = "done" /\ Len(data) = 2 /\ ~IsBlankRow(data[2])) =>
        /\ Len(topics) = 1
        /\ topics[1].questions = <<>>

\* C3 (amended): when no topic is open and the non-blank row being processed
\* is the last row of the table, the row is dropped: no topic is started and
\* none is open afterwards; a header and one non-blank row yield no topic.
C3_LastRowDropped ==
    /\ [][LastRowWithNoOpenTopic =>
            (topics' = topics /\ current_topic' = 0 /\ i' = i + 1)]_vars
    /\ []((ppc = "done" /\ Len(data) = 2) => topics = <<>>)

C3_Witness ==
    /\ ppc = "done"
    /\ Len(data) > 2
    /\ ~IsBlankRow(data[Len(data)])
    /\ topics = <<>>

\* C4: a row that is empty or has a blank first cell becomes neither a topic
\* nor a question and leaves the list of topics and the open topic as they
\* were, so the next non-blank row is handled against the same open topic.
C4_BlankRowLeavesTopicOpen ==
    [][(ppc = "loop" /\ i < Len(data) /\ IsBlankRow(Row(i))) =>
          (topics' = topics /\ current_topic' = current_topic /\ i' = i + 1)]_vars

C4_Witness ==
    /\ ppc = "loop"
    /\ i >= 2
    /\ i < Len(data)
    /\ IsBlankRow(Row(i - 1))
    /\ current_topic # 0
    /\ topics[current_topic].questions # <<>>
    /\ ~IsBlankRow(Row(i))

----------------------------------------------------------------------------
(* Claims about LLMInterface, checked under LlmSpec *)

\* the response carries text whose extracted part parses as a JSON object
ParsesToObject(r) ==
    /\ r.kind = "dict"
    /\ r.has_content
    /\ r.ctype = "str"
    /\ json_parses(extract_json(r.text))
    /\ json_loads(extract_json(r.text)).j = "object"

\* the fields of that object
ParsedFields(r) == json_loads(extract_json(r.text)).f

\* C5: every output of check_answer_correctness with is_correct = true has a
\* confidence >= 80: a parsed confidence below 80, or a missing one, forces
\* is_correct to false whatever the payload said, and a confidence of exactly
\* 80 leaves the payload's is_correct as it is.
C5_CorrectOnlyAtHighConfidence ==
    lpc = "answer" =>
        LET v == answer_result.value.f IN
        /\ answer_result.out = "return"
        /\ answer_result.value.j = "object"
        /\ v.is_correct = PyBool(TRUE) =>
              (v.confidence.t = "int" /\ v.confidence.n >= 80)
        /\ ParsesToObject(response) =>
              LET p == ParsedFields(response) IN
              /\ (p.confidence.t = "absent"
                    \/ (p.confidence.t = "int" /\ p.confidence.n < 80))
                   => v.is_correct = PyBool(FALSE)
              /\ p.confidence = PyInt(80) => v.is_correct = p.is_correct

C5_Witness ==
    /\ lpc = "answer"
    /\ ParsesToObject(response)
    /\ ParsedFields(response).is_correct = PyBool(TRUE)
    /\ ParsedFields(response).confidence = PyInt(79)
    /\ answer_result.value.f.is_correct = PyBool(FALSE)
    /\ answer_result.value.f.confidence = PyInt(79)

\* {is_correct: true, confidence: 50, explanation: "ok"}
ExamplePayload ==
    [NoFields EXCEPT !.is_correct = PyBool(TRUE),
                     !.confidence = PyInt(50),
                     !.explanation = PyStr("ok")]

\* C6 as stated: the payload {is_correct: true, confidence: 50, explanation:
\* "ok"} yields {is_correct: false, confidence: 50, explanation: "ok (low
\* model confidence)"}.
C6_EnglishMarker ==
    (lpc = "answer" /\ ParsesToObject(response)
       /\ ParsedFields(response) = ExamplePayload) =>
        answer_result =
          Return(Dict([ExamplePayload EXCEPT
             !.is_correct = PyBool(FALSE),
             !.explanation = PyStr("ok (low model confidence)")]))

\* C6 (amended): for a parsed payload with a text explanation and a numeric
\* confidence below 80 (or none), the returned explanation is the parsed one
\* followed by one space and the marker "(Nízká jistota LLM)", is_correct is
\* false and confidence is as parsed: {is_correct: true, confidence: 50,
\* explanation: "ok"} yields {is_correct: false, confidence: 50, explanation:
\* "ok (Nízká jistota LLM)"}; with confidence >= 80 the payload is returned
\* unchanged.
C6_CzechMarkerAppended ==
    (lpc = "answer" /\ ParsesToObject(response)
       /\ ParsedFields(response).explanation.t = "str"
       /\ ParsedFields(response).confidence.t \in {"int", "absent"}) =>
        LET p == ParsedFields(response) IN
        /\ (p.confidence.t = "int" /\ p.confidence.n >= 80) =>
              answer_result = Return(Dict(p))
        /\ (p.confidence.t = "absent" \/ p.confidence.n < 80) =>
              answer_result =
                Return(Dict([p EXCEPT
                   !.is_correct = PyBool(FALSE),
                   !.explanation =
                       PyStr(p.explanation.s \o " " \o "(Nízká jistota LLM)")]))
        /\ p = ExamplePayload =>
              answer_result.value.f.explanation = PyStr("ok (Nízká jistota LLM)")

C6_Witness ==
    /\ lpc = "answer"
    /\ ParsesToObject(response)
    /\ ParsedFields(response) = ExamplePayload
    /\ answer_result.value.f.explanation = PyStr("ok (Nízká jistota LLM)")
    /\ answer_result.value.f.confidence = PyInt(50)

\* the completion result is malformed for the grammar check: an error string,
\* a non-dict, a dict without content, content that is null or no text, text
\* that does not parse, or JSON that is no object with has_errors,
\* corrections and confidence
MalformedForGrammar(r) ==
    IF ParsesToObject(r)
    THEN \/ ParsedFields(r).has_errors.t # "bool"
         \/ ParsedFields(r).corrections.t # "list"
         \/ ParsedFields(r).confidence.t # "int"
    ELSE TRUE

\* the same for the answer check, with is_correct, confidence and explanation
MalformedForAnswer(r) ==
    IF ParsesToObject(r)
    THEN \/ ParsedFields(r).is_correct.t # "bool"
         \/ ParsedFields(r).confidence.t # "int"
         \/ ParsedFields(r).explanation.t # "str"
    ELSE TRUE

\* C7: on a malformed completion result check_czech_grammar and
\* check_answer_correctness do not raise: they return a verdict with
\* confidence 0, has_errors / is_correct false and a populated error
\* (grammar) or explanation (answer).
C7_MalformedGivesZeroConfidenceVerdict ==
    /\ (lpc = "grammar" /\ MalformedForGrammar(response)) =>
          /\ grammar_result.out = "return"
          /\ grammar_result.value.j = "object"
          /\ grammar_result.value.f.confidence = PyInt(0)
          /\ grammar_result.value.f.has_errors = PyBool(FALSE)
          /\ grammar_result.value.f.error.t = "str"
    /\ (lpc = "answer" /\ MalformedForAnswer(response)) =>
          /\ answer_result.out = "return"
          /\ answer_result.value.j = "object"
          /\ answer_result.value.f.confidence = PyInt(0)
          /\ answer_result.value.f.is_correct = PyBool(FALSE)
          /\ answer_result.value.f.explanation.t = "str"

----------------------------------------------------------------------------
(* Claims about the slide title and body, checked under MapSpec *)

\* y is x without its leading and trailing whitespace
IsTrimOf(y, x) ==
    \E a \in 1..Len(x) + 1, b \in 0..Len(x) :
        /\ y = SubSeq(x, a, b)
        /\ \A k \in 1..a - 1 : x[k] \in Whitespace
        /\ \A k \in b + 1..Len(x) : x[k] \in Whitespace
        /\ y # <<>> => (y[1] \notin Whitespace /\ y[Len(y)] \notin Whitespace)

\* x starts with k characters of class followed by '.' or ')'
StartsWithNumber(x, class, k) ==
    /\ k >= 1
    /\ k + 1 <= Len(x)
    /\ \A j \in 1..k : x[j] \in class
    /\ x[k + 1] \in Punctuation

\* c is the name with a leading "<digits><. or )>" removed, trimmed
IsCleanTopic(c, name) ==
    IF \E k \in 1..Len(name) : StartsWithNumber(name, Digits, k)
    THEN \A k \in 1..Len(name) :
            StartsWithNumber(name, Digits, k) =>
                IsTrimOf(c, SubSeq(name, k + 2, Len(name)))
    ELSE IsTrimOf(c, name)

History == <<"H", "i", "s", "t", "o", "r", "y">>
WhatYear == <<"W", "h", "a", "t", " ", "y", "e", "a", "r", "?">>

\* C8: the title and body computed for a topic name and a question text are
\* those of the reference: with a leading number token (one or more of T and
\* digits, then '.' or ')') the title is the token, a space and the clean
\* topic name, and the body is the rest of the text trimmed; without one the
\* title is the clean topic name and the body the whole text. ("2. History",
\* "3) What year?") gives ("3) History", "What year?") and ("History", "What
\* year?") gives ("History", "What year?").
C8_TitleAndBodyAsReference ==
    mpc = "done" =>
        /\ IF \E k \in 1..Len(m_question) :
                 StartsWithNumber(m_question, Digits \cup {"T"}, k)
           THEN \A k \in 1..Len(m_question) :
                   StartsWithNumber(m_question, Digits \cup {"T"}, k) =>
                     /\ Len(m_slide.title) >= k + 2
                     /\ SubSeq(m_slide.title, 1, k + 2) =
                          SubSeq(m_question, 1, k + 1) \o <<" ">>
                     /\ IsCleanTopic(SubSeq(m_slide.title, k + 3,
                                            Len(m_slide.title)), m_topic)
                     /\ IsTrimOf(m_slide.body,
                                 SubSeq(m_question, k + 2, Len(m_question)))
           ELSE /\ IsCleanTopic(m_slide.title, m_topic)
                /\ m_slide.body = m_question
        /\ (m_topic = TopicHistory /\ m_question = QuestionWhatYear) =>
              m_slide = [title |-> <<"3", ")", " ">> \o History,
                         body |-> WhatYear]
        /\ (m_topic = History /\ m_question = WhatYear) =>
              m_slide = [title |-> History, body |-> WhatYear]

C8_Witness ==
    /\ mpc = "done"
    /\ m_topic = TopicHistory
    /\ m_question = QuestionWhatYear
    /\ m_slide.title = <<"3", ")", " ">> \o History
    /\ m_slide.body = WhatYear

----------------------------------------------------------------------------
(* Claims about add_content_to_slides, checked under SlidesSpec *)

RECURSIVE QuestionsBefore(_)
\* the number of questions of the topics before topic t
QuestionsBefore(t) ==
    IF t <= 1 THEN 0
    ELSE QuestionsBefore(t - 1) + Len(topics_data[t - 1].questions)

\* the place of question q of topic t, counting through the topics in order,
\* then the questions in order
PlaceOf(t, q) == QuestionsBefore(t) + q

\* the request inserts the title (element 1) or the body (element 2) of the
\* question it was built for
CarriesTextOf(r, t, q) ==
    LET name == topics_data[t].topic_name
        text == topics_data[t].questions[q].question
    IN  /\ r.insertionIndex = 0
        /\ \/ r.objectId[2] = 1 /\ r.text = slide_title(name, text)
           \/ r.objectId[2] = 2 /\ r.text = question_without_number(text)

\* C10: text is emitted in topic-major, question-minor order and assigned by
\* position: every request built for the k-th question of the batch targets
\* the k-th slide, the title its first and the body its second page element,
\* so no slide receives text of two questions; and every question that has a
\* slide with two page elements gets both.
C10_TextAssignedByPosition ==
    /\ \A j \in 1..Len(requests) :
          LET r == requests[j] IN
          /\ r.objectId[1] = PlaceOf(r.question[1], r.question[2])
          /\ CarriesTextOf(r, r.question[1], r.question[2])
    /\ \A j \in 1..Len(requests), k \in 1..Len(requests) :
          j < k =>
            \/ requests[j].objectId[1] < requests[k].objectId[1]
            \/ /\ requests[j].objectId[1] = requests[k].objectId[1]
               /\ requests[j].objectId[2] = 1
               /\ requests[k].objectId[2] = 2
    /\ \A j \in 1..Len(requests), k \in 1..Len(requests) :
          requests[j].objectId[1] = requests[k].objectId[1] =>
              requests[j].question = requests[k].question
    /\ spc = "done" =>
          \A t \in 1..Len(topics_data) :
            \A q \in 1..Len(topics_data[t].questions) :
              (PlaceOf(t, q) <= Len(slides) /\ slides[PlaceOf(t, q)] >= 2) =>
                 \A e \in {1, 2} :
                   \E j \in 1..Len(requests) :
                      /\ requests[j].objectId = <<PlaceOf(t, q), e>>
                      /\ requests[j].question = <<t, q>>
    /\ sent \in {<<>>, requests}

C10_Witness ==
    /\ spc = "done"
    /\ Len(topics_data) = 2
    /\ Len(topics_data[1].questions) = 2
    /\ Len(topics_data[2].questions) = 2
    /\ Len(slides) = 4
    /\ Len(sent) = 8
    /\ sent[5].objectId = <<3, 1>>
    /\ sent[5].question = <<2, 1>>

----------------------------------------------------------------------------
(* Claims about main, checked under MainSpec *)

\* the topics at positions 2k+1 and 2k+2 of main_topics (those there are)
GroupOf(k) ==
    [p \in 1..Min(2, Len(main_topics) - 2 * k) |-> main_topics[2 * k + p]]

\* C9: topics are grouped two at a time in their order, one presentation
\* per group: the k-th call of create_presentation receives topics 2k and
\* 2k+1 (only the last group may hold one topic); a run that reaches the
\* summary has made ceil(n/2) calls, every topic is in exactly one group,
\* and 5 topics give the groups [t0,t1], [t2,t3], [t4].
C9_TopicsGroupedInPairs ==
    /\ \A k \in 1..Len(calls) :
          /\ calls[k].topics_data = GroupOf(k - 1)
          /\ Len(calls[k].topics_data) \in {1, 2}
          /\ Len(calls[k].topics_data) = 1 => 2 * k - 1 = Len(main_topics)
    /\ mainpc = "done" =>
          /\ Len(calls) = (Len(main_topics) + 1) \div 2
          /\ \A t \in 1..Len(main_topics) :
                Cardinality({k \in 1..Len(calls) :
                               \E p \in 1..Len(calls[k].topics_data) :
                                  calls[k].topics_data[p] = main_topics[t]}) = 1
          /\ Len(main_topics) = 5 =>
                /\ calls[1].topics_data = <<main_topics[1], main_topics[2]>>
                /\ calls[2].topics_data = <<main_topics[3], main_topics[4]>>
                /\ calls[3].topics_data = <<main_topics[5]>>

C9_Witness ==
    /\ mainpc = "done"
    /\ Len(main_topics) = 5
    /\ Len(calls) = 3
    /\ Len(calls[3].topics_data) = 1
    /\ calls[3].topics_data[1].topic_name = main_topics[5].topic_name

----------------------------------------------------------------------------
(* Claims about running out of slides, checked under SlidesSpec *)

\* the number of questions of the batch
TotalQuestions == QuestionsBefore(Len(topics_data) + 1)

\* the questions a request was built for
QuestionsWithText == { requests[j].question : j \in 1..Len(requests) }

\* C11: when the presentation has fewer slides than the batch has questions,
\* text is inserted only for the first len(slides) questions in topic-major
\* order, counted across topic boundaries; the later questions of every
\* topic get no text, and the function still runs to its end. With 2 slides
\* and 3 questions only the first 2 questions are placed.
C11_LaterQuestionsDropped ==
    /\ slide_idx <= Len(slides)
    /\ \A tq \in QuestionsWithText : PlaceOf(tq[1], tq[2]) <= Len(slides)
    /\ spc = "done" /\ (slides # <<>> \/ ti > Len(topics_data)) =>
          /\ ti = Len(topics_data) + 1
          /\ \A t \in 1..Len(topics_data) :
                \A q \in 1..Len(topics_data[t].questions) :
                   <<t, q>> \in QuestionsWithText <=>
                       /\ PlaceOf(t, q) <= Len(slides)
                       /\ slides[PlaceOf(t, q)] >= 2
          /\ sent \in {requests, <<>>}
    /\ /\ spc = "done"
       /\ TotalQuestions = 3
       /\ Len(slides) = 2
       /\ \A k \in 1..2 : slides[k] >= 2
       => { PlaceOf(tq[1], tq[2]) : tq \in QuestionsWithText } = {1, 2}

C11_Witness ==
    /\ spc = "done"
    /\ Len(topics_data) = 2
    /\ Len(topics_data[1].questions) = 1
    /\ Len(topics_data[2].questions) = 2
    /\ Len(slides) = 2
    /\ Len(sent) = 4
    /\ QuestionsWithText = {<<1, 1>>, <<2, 1>>}

----------------------------------------------------------------------------
(* Claims about the verdicts' confidence, checked under LlmSpec *)

\* the value is an integer between 0 and 100
IsPercentage(c) == c.t = "int" /\ c.n >= 0 /\ c.n <= 100

\* C15: every verdict returned by check_czech_grammar or by
\* check_answer_correctness carries a confidence that is an integer in 0..100,
\* whatever the payload contained.
C15_ConfidenceIsPercentage ==
    /\ (lpc = "grammar" /\ grammar_result.out = "return") =>
          IsPercentage(grammar_result.value.f.confidence)
    /\ (lpc = "answer" /\ answer_result.out = "return") =>
          IsPercentage(answer_result.value.f.confidence)

----------------------------------------------------------------------------
(* Claims about short tables and blank rows, checked under ParseSpec *)

\* C16: for a table with fewer than 2 rows (no row, or only the header row)
\* parse_quiz returns an empty topic sequence: it never enters the row loop
\* and ends without raising.
C16_ShortTableGivesNoTopics ==
    Len(data) < 2 =>
        /\ ppc \in {"start", "done"}
        /\ topics = <<>>
        /\ current_topic = 0

C16_Witness ==
    /\ ppc = "done"
    /\ Len(data) = 1
    /\ ~IsBlankRow(data[1])
    /\ topics = <<>>

\* the table with every empty or blank row after the header removed
RECURSIVE without_blank_rows(_)
without_blank_rows(d) ==
    IF Len(d) < 2 THEN d
    ELSE LET front == without_blank_rows(SubSeq(d, 1, Len(d) - 1))
         IN  IF IsBlankRow(d[Len(d)]) THEN front
             ELSE Append(front, d[Len(d)])

\* the function agrees with the stepwise run of the loop
ParseQuizAgreesWithRun == ppc = "done" => topics = parse_quiz(data)

\* C17: parse_quiz is insensitive to blank rows: a table and the same table
\* with its empty and blank-first-cell rows after the header removed (an
\* empty row directly after a non-blank row, or at the end, included) yield
\* the same topic sequence.
C17_BlankRowsChangeNothing ==
    ppc = "done" => topics = parse_quiz(without_blank_rows(data))

----------------------------------------------------------------------------
(* Claims about the report's counts and statuses, checked under ReportSpec *)

\* the questions of the topic tree
AllQuestions ==
    { tq \in (1..Len(check_topics)) \X (1..MaxCheckQuestions + 1) :
         tq[2] <= Len(check_topics[tq[1]].questions) }

QuestionAt(tq) == check_topics[tq[1]].questions[tq[2]]

\* the questions whose grammar verdict has has_errors = true
WithGrammarErrors ==
    { tq \in AllQuestions :
         /\ QuestionAt(tq).grammar.out = "return"
         /\ QuestionAt(tq).grammar.value.f.has_errors = PyBool(TRUE) }

\* the questions whose answer verdict has a confidence below 80, a verdict
\* without confidence counting as 0
WithLowConfidence ==
    { tq \in AllQuestions :
         /\ QuestionAt(tq).answer_check.out = "return"
         /\ LET c == QuestionAt(tq).answer_check.value.f.confidence
            IN  c.t = "absent" \/ (c.t = "int" /\ c.n < 80) }

\* the questions with a non-empty answer
WithAnswer == { tq \in AllQuestions : QuestionAt(tq).answer # <<>> }

\* C12: after check_quiz_with_llm followed by save_llm_check_results, total
\* is the number of all questions of all topics, grammarIssues the number of
\* questions whose grammar verdict has has_errors = true, answerIssues the
\* number of questions whose answer verdict has confidence < 80, and
\* answerIssues <= number of questions with a non-empty answer <= total; the
\* text report and the JSON document carry the same three counts.
C12_SummaryCounts ==
    cpc = "done" =>
        /\ total_questions = Cardinality(AllQuestions)
        /\ grammar_issues = Cardinality(WithGrammarErrors)
        /\ answer_issues = Cardinality(WithLowConfidence)
        /\ answer_issues <= Cardinality(WithAnswer)
        /\ Cardinality(WithAnswer) <= total_questions
        /\ text_summary = <<total_questions, grammar_issues, answer_issues>>
        /\ json_summary = text_summary

C12_Witness ==
    /\ cpc = "done"
    /\ text_summary = <<3, 2, 1>>
    /\ json_summary = <<3, 2, 1>>
    /\ Cardinality(WithAnswer) = 2

\* C18: in the report a question's answer gets the positive status and is
\* left out of answerIssues only if its answer verdict has is_correct = true:
\* no question whose verdict says is_correct = false is reported as correct.
C18_CorrectStatusNeedsIsCorrect ==
    \A k \in 1..Len(report_lines) :
        report_lines[k].answer_status = "SPRÁVNÁ" =>
            QuestionAt(report_lines[k].question).answer_check.value.f.is_correct
                = PyBool(TRUE)

----------------------------------------------------------------------------
(* Claims about the run of main, checked under RunSpec *)

\* the questions of the run, as (topic, question) positions
RunQuestions ==
    { tq \in (1..Len(run_topics)) \X (1..MaxRunQuestions + 1) :
         tq[2] <= Len(run_topics[tq[1]].questions) }

\* topic-major, question-minor order
Precedes(x, y) == x[1] < y[1] \/ (x[1] = y[1] /\ x[2] < y[2])

\* the last operation issued for a question: its answer check if it has an
\* answer, else its grammar check
FinalCheckOf(x) ==
    IF run_topics[x[1]].questions[x[2]].answer # <<>>
    THEN Op("answer check", x[1], x[2], 0)
    ELSE Op("grammar check", x[1], x[2], 0)

\* the operations issued for a presentation
BatchOps ==
    {"create presentation", "move lookup", "move update", "create slides",
     "get slides", "insert text"}

\* operation b may be issued directly after operation a
Follows(a, b) ==
    CASE b.op = "authenticate" -> a = NoOp
      [] b.op = "read" -> a.op = "authenticate"
      [] b.op = "folder lookup" -> a.op = "read"
      [] b.op = "grammar check" ->
           /\ <<b.t, b.q>> \in RunQuestions
           /\ IF \E x \in RunQuestions : Precedes(x, <<b.t, b.q>>)
              THEN \E x \in RunQuestions :
                      /\ Precedes(x, <<b.t, b.q>>)
                      /\ \A z \in RunQuestions :
                            ~(Precedes(x, z) /\ Precedes(z, <<b.t, b.q>>))
                      /\ a = FinalCheckOf(x)
              ELSE a.op = "folder lookup"
      [] b.op = "answer check" ->
           /\ a = Op("grammar check", b.t, b.q, 0)
           /\ run_topics[b.t].questions[b.q].answer # <<>>
      [] b.op = "report write" ->
           IF RunQuestions = {} THEN a.op = "folder lookup"
           ELSE \E x \in RunQuestions :
                   /\ \A z \in RunQuestions : ~Precedes(x, z)
                   /\ a = FinalCheckOf(x)
      [] b.op = "create presentation" ->
           IF b.batch = 1
           THEN a.op \in {"folder lookup", "grammar check", "report write"}
           ELSE a.op \in BatchOps /\ a.batch = b.batch - 1
      [] b.op = "move lookup" -> a = Op("create presentation", 0, 0, b.batch)
      [] b.op = "move update" -> a = Op("move lookup", 0, 0, b.batch)
      [] b.op = "create slides" ->
           /\ a.batch = b.batch
           /\ a.op \in {"create presentation", "move lookup", "move update"}
      [] b.op = "get slides" ->
           /\ a.batch = b.batch
           /\ a.op \in {"create presentation", "move lookup", "move update",
                        "create slides"}
      [] b.op = "insert text" -> a = Op("get slides", 0, 0, b.batch)
      [] OTHER -> FALSE

C14_OnlyAuthOrEmptyReadStops ==
    /\ rpc = "crashed" => last_op.op \in {"authenticate", "read"}
    /\ rpc = "stopped" => last_op.op = "read"
    /\ rpc = "summary" =>
          attempted * TopicsPerPresentation >= Len(run_topics)

----------------------------------------------------------------------------
(* Claims about grammar_check, checked under GrammarCheckSpec *)

\* the positions in the sheet (1-based, the header at 1) of the data rows
\* with a non-blank first cell
CheckedRows == { k \in 2..Len(gc_data) : ~IsBlankRow(gc_data[k]) }

\* C19: check_grammar_and_collect_corrections returns exactly one entry per
\* data row with a non-blank first cell and none for a blank row, in
\* increasing row order, each with row = list index + 1, its original the
\* trimmed text of that row; write_corrections_to_sheet writes each entry's
\* corrected text into column D of that row; and an entry whose verdict
\* reports no errors (the zero-confidence fallback included) has its
\* corrected text equal to the original trimmed text.
C19_OneEntryPerCheckedRow ==
    /\ \A k \in 1..Len(corrections) :
          LET e == corrections[k] IN
          /\ e.row \in CheckedRows
          /\ e.original = strip(gc_data[e.row][1])
          /\ ~e.has_errors => e.corrected = e.original
    /\ \A j \in 1..Len(corrections), k \in 1..Len(corrections) :
          j < k => corrections[j].row < corrections[k].row
    /\ gcpc \in {"collected", "done"} =>
          { corrections[k].row : k \in 1..Len(corrections) } = CheckedRows
    /\ \A k \in 1..Len(written) :
          /\ Len(written) = Len(corrections)
          /\ written[k].column = "D"
          /\ written[k].row = corrections[k].row
          /\ written[k].values = <<corrections[k].corrected>>

C19_Witness ==
    /\ gcpc = "done"
    /\ Len(gc_data) = 4
    /\ IsBlankRow(gc_data[3])
    /\ Len(written) = 2
    /\ written[1] = [column |-> "D", row |-> 2, values |-> << <<"B", "B">> >>]
    /\ written[2].row = 4
    /\ corrections[2].confidence = 0
    /\ ~corrections[2].has_errors
    /\ written[2].values = << strip(gc_data[4][1]) >>

====
